---- MODULE Spec2Model ----
(***************************************************************************)
(* Lens discovery, validation and enhancement pipeline of the lens        *)
(* selector service (src/utils/lensValidator.js).                          *)
(*                                                                         *)
(* JavaScript strings are sequences of one-character strings, so that     *)
(* String.prototype.includes, base64 encoding and decoding are computed    *)
(* on the characters.  JSON values are tagged records.                     *)
(***************************************************************************)
EXTENDS Integers, Sequences, FiniteSets, TLC

VARIABLES
  root,            \* the lensFilePath argument of discoverLenses
  tree,            \* the file tree below root: directory -> listing
  pc,              \* position of discoverLenses
  lensFiles,       \* result of findJsonFiles
  enhanceFiles,    \* result of findEnhanceFiles: {exact, fallback}
  idx,             \* index of the for-of loop over lensFiles
  validLenses,     \* the array discoverLenses builds and returns
  enhanceLog,      \* paths for which the enhancement branch was entered
  unlistable,      \* directories on which fs.readdirSync throws
  vLens,           \* argument of a direct validateFHIRLens call
  vResult,         \* what that call produced
  vpc,             \* position of the direct validateFHIRLens call
  lensCache,       \* the Map lensCache: cache key -> {lenses, timestamp}
  clock,           \* Date.now()
  pending,         \* the calls awaiting their discoverLenses promise
  last,            \* the call the latest step began or settled, if any
  owner,           \* per cache key, the triple whose call wrote the entry
  uncalled,        \* the triples not called since the latest clearCache
  world,           \* which outcomes discoverLenses can have
  env              \* process.env: the triple the routes pass

vars == <<root, tree, pc, lensFiles, enhanceFiles, idx, validLenses,
          enhanceLog, unlistable, vLens, vResult, vpc, lensCache, clock,
          pending, last, owner, uncalled, world, env>>

pipelineVars == <<root, tree, pc, lensFiles, enhanceFiles, idx, validLenses,
                  enhanceLog, unlistable>>

validatorVars == <<vLens, vResult, vpc>>

serviceVars == <<lensCache, clock, pending, last, owner, uncalled, world, env>>

----------------------------------------------------------------------------
(* Bounds *)

\* most files (documents and scripts together) in a tree
MaxFiles == 2

\* deepest directory nesting below the root
MaxDepth == 2

\* most items in a content array handed to validateFHIRLens directly
MaxItems == 2

----------------------------------------------------------------------------
(* Characters and string literals of the source *)

AsciiLow ==
  <<" ", "!", "\"", "#", "$", "%", "&", "'", "(", ")", "*", "+", ",", "-", 
    ".", "/", "0", "1", "2", "3", "4", "5", "6", "7", "8", "9", ":", ";", 
    "<", "=", ">", "?", "@", "A", "B", "C", "D", "E", "F", "G", "H", "I", 
    "J", "K", "L", "M", "N", "O", "P", "Q", "R", "S", "T", "U", "V", "W", 
    "X", "Y", "Z", "[", "\\", "]", "^", "_">>

AsciiHigh ==
  <<"a", "b", "c", "d", "e", "f", "g", "h", "i", "j", "k", "l", "m", "n", 
    "o", "p", "q", "r", "s", "t", "u", "v", "w", "x", "y", "z", "{", "|", 
    "}", "~">>

\* the modelled characters: newline and printable ASCII except the backquote
IsLow(c) == \E i \in 1..Len(AsciiLow) : AsciiLow[i] = c

\* character code of a character
Ord(c) ==
  IF c = "\n" THEN 10
  ELSE IF IsLow(c) THEN 31 + (CHOOSE i \in 1..Len(AsciiLow) : AsciiLow[i] = c)
  ELSE 96 + (CHOOSE i \in 1..Len(AsciiHigh) : AsciiHigh[i] = c)

\* the character of a character code
Chr(n) ==
  IF n = 10 THEN "\n"
  ELSE IF n < 96 THEN AsciiLow[n - 31]
  ELSE AsciiHigh[n - 96]

MsgNotObject ==
  <<"L", "e", "n", "s", " ", "m", "u", "s", "t", " ", "b", "e", " ", "a", 
    " ", "J", "S", "O", "N", " ", "o", "b", "j", "e", "c", "t">>

MsgResourceType ==
  <<"r", "e", "s", "o", "u", "r", "c", "e", "T", "y", "p", "e", " ", "m", 
    "u", "s", "t", " ", "b", "e", " ", "\"", "L", "i", "b", "r", "a", "r", 
    "y", "\"">>

MsgUrl ==
  <<"u", "r", "l", " ", "i", "s", " ", "r", "e", "q", "u", "i", "r", "e", 
    "d", " ", "a", "n", "d", " ", "m", "u", "s", "t", " ", "b", "e", " ", 
    "a", " ", "s", "t", "r", "i", "n", "g">>

MsgName ==
  <<"n", "a", "m", "e", " ", "i", "s", " ", "r", "e", "q", "u", "i", "r", 
    "e", "d", " ", "a", "n", "d", " ", "m", "u", "s", "t", " ", "b", "e", 
    " ", "a", " ", "s", "t", "r", "i", "n", "g">>

MsgStatus ==
  <<"s", "t", "a", "t", "u", "s", " ", "i", "s", " ", "r", "e", "q", "u", 
    "i", "r", "e", "d", " ", "a", "n", "d", " ", "m", "u", "s", "t", " ", 
    "b", "e", " ", "a", " ", "s", "t", "r", "i", "n", "g">>

MsgContentArray ==
  <<"c", "o", "n", "t", "e", "n", "t", " ", "m", "u", "s", "t", " ", "b", 
    "e", " ", "a", "n", " ", "a", "r", "r", "a", "y">>

MsgContentData ==
  <<"c", "o", "n", "t", "e", "n", "t", " ", "m", "u", "s", "t", " ", "i", 
    "n", "c", "l", "u", "d", "e", " ", "a", "t", " ", "l", "e", "a", "s", 
    "t", " ", "o", "n", "e", " ", "i", "t", "e", "m", " ", "w", "i", "t", 
    "h", " ", "b", "a", "s", "e", "6", "4", " ", "e", "n", "c", "o", "d", 
    "e", "d", " ", "d", "a", "t", "a">>

WordContent ==
  <<"c", "o", "n", "t", "e", "n", "t">>

LibraryStr ==
  <<"L", "i", "b", "r", "a", "r", "y">>

PatientStr ==
  <<"P", "a", "t", "i", "e", "n", "t">>

NeedleFunction ==
  <<"f", "u", "n", "c", "t", "i", "o", "n", "s", "+", "e", "n", "h", "a", 
    "n", "c", "e">>

NeedleConst ==
  <<"c", "o", "n", "s", "t", "s", "+", "e", "n", "h", "a", "n", "c", "e">>

NeedleExport ==
  <<"e", "x", "p", "o", "r", "t", ".", "*", "e", "n", "h", "a", "n", "c", 
    "e">>

NeedleLet ==
  <<"l", "e", "t", "s", "+", "e", "n", "h", "a", "n", "c", "e", "s", "+", 
    "=", ".", "*", "(", ")">>

defaultEnhance ==
  <<"f", "u", "n", "c", "t", "i", "o", "n", " ", "e", "n", "h", "a", "n", 
    "c", "e", "(", "o", "r", "i", "g", "i", "n", "a", "l", "C", "o", "n", 
    "t", "e", "n", "t", ")", " ", "{", "\n", " ", " ", " ", " ", "c", "o", 
    "n", "s", "o", "l", "e", ".", "l", "o", "g", "(", "'", "N", "o", "t", 
    " ", "E", "n", "h", "a", "n", "c", "i", "n", "g", "'", ")", ";", "\n", 
    " ", " ", " ", " ", "r", "e", "t", "u", "r", "n", " ", "o", "r", "i", 
    "g", "i", "n", "a", "l", "C", "o", "n", "t", "e", "n", "t", ";", "\n", 
    "}">>

B64Alphabet ==
  <<"A", "B", "C", "D", "E", "F", "G", "H", "I", "J", "K", "L", "M", "N", 
    "O", "P", "Q", "R", "S", "T", "U", "V", "W", "X", "Y", "Z", "a", "b", 
    "c", "d", "e", "f", "g", "h", "i", "j", "k", "l", "m", "n", "o", "p", 
    "q", "r", "s", "t", "u", "v", "w", "x", "y", "z", "0", "1", "2", "3", 
    "4", "5", "6", "7", "8", "9", "+", "/">>


\* String.prototype.includes: needle occurs as a contiguous run of hay
Includes(hay, needle) ==
  \E i \in 0..(Len(hay) - Len(needle)) :
    \A j \in 1..Len(needle) : hay[i + j] = needle[j]

----------------------------------------------------------------------------
(* JSON values as JSON.parse produces them *)

JUndefined == [t |-> "undefined"]
JNull == [t |-> "null"]
JStr(s) == [t |-> "string", v |-> s]
JNum(n) == [t |-> "number", n |-> n]
JBool(b) == [t |-> "boolean", b |-> b]
JArr(items) == [t |-> "array", items |-> items]
JObj(f) == [t |-> "object", f |-> f]

\* typeof x
TypeOf(x) ==
  CASE x.t = "undefined" -> "undefined"
    [] x.t = "string" -> "string"
    [] x.t = "number" -> "number"
    [] x.t = "boolean" -> "boolean"
    [] OTHER -> "object"

\* !x
Falsy(x) ==
  \/ x.t \in {"undefined", "null"}
  \/ x.t = "string" /\ x.v = <<>>
  \/ x.t = "number" /\ x.n = 0
  \/ x.t = "boolean" /\ ~x.b

\* x can be dereferenced without a TypeError
Derefable(x) == x.t \notin {"undefined", "null"}

\* x.key for a named property of a dereferenceable value
Get(x, key) ==
  IF x.t = "object" /\ key \in DOMAIN x.f THEN x.f[key] ELSE JUndefined

\* Array.isArray(x)
IsArray(x) == x.t = "array"

----------------------------------------------------------------------------
(* validateFHIRLens *)

\* item.data && typeof item.data === 'string'
ItemHasData(item) ==
  ~Falsy(Get(item, "data")) /\ TypeOf(Get(item, "data")) = "string"

\* index of the first item the for-of loop stops at: the first item holding
\* data (break) or the first item that cannot be dereferenced (TypeError);
\* 0 when the loop runs to the end
FirstStop(items) ==
  IF \E i \in 1..Len(items) : ~Derefable(items[i]) \/ ItemHasData(items[i])
  THEN CHOOSE i \in 1..Len(items) :
         /\ ~Derefable(items[i]) \/ ItemHasData(items[i])
         /\ \A j \in 1..(i - 1) :
              Derefable(items[j]) /\ ~ItemHasData(items[j])
  ELSE 0

\* the loop over lens.content throws a TypeError
ContentLoopThrows(items) ==
  FirstStop(items) # 0 /\ ~Derefable(items[FirstStop(items)])

\* hasBase64Content after the loop
hasBase64Content(items) ==
  FirstStop(items) # 0 /\ Derefable(items[FirstStop(items)])

\* !lens.f || typeof lens.f !== 'string'
BadString(lens, field) ==
  Falsy(Get(lens, field)) \/ TypeOf(Get(lens, field)) # "string"

resourceTypeErrors(lens) ==
  IF Get(lens, "resourceType") # JStr(LibraryStr)
  THEN <<MsgResourceType>> ELSE <<>>

urlErrors(lens) ==
  IF BadString(lens, "url") THEN <<MsgUrl>> ELSE <<>>

nameErrors(lens) ==
  IF BadString(lens, "name") THEN <<MsgName>> ELSE <<>>

statusErrors(lens) ==
  IF BadString(lens, "status") THEN <<MsgStatus>> ELSE <<>>

contentErrors(lens) ==
  IF ~IsArray(Get(lens, "content")) THEN <<MsgContentArray>>
  ELSE IF ~hasBase64Content(Get(lens, "content").items)
       THEN <<MsgContentData>> ELSE <<>>

\* what a call produces: a returned {isValid, errors} or a thrown TypeError
Returned(errors) ==
  [threw |-> FALSE, isValid |-> Len(errors) = 0, errors |-> errors]

Thrown == [threw |-> TRUE, isValid |-> FALSE, errors |-> <<>>]

\* validateFHIRLens with the guard reduced to the typeof test: null reaches
\* the field checks, where reading lens.resourceType throws
validateFHIRLens_NullUnguarded(lens) ==
  IF TypeOf(lens) # "object"
  THEN Returned(<<MsgNotObject>>)
  ELSE IF ~Derefable(lens) THEN Thrown
  ELSE IF IsArray(Get(lens, "content"))
          /\ ContentLoopThrows(Get(lens, "content").items)
       THEN Thrown
       ELSE Returned(resourceTypeErrors(lens) \o urlErrors(lens)
                     \o nameErrors(lens) \o statusErrors(lens)
                     \o contentErrors(lens))

\* validateFHIRLens with the name check placed before the url check
validateFHIRLens_NameFirst(lens) ==
  IF Falsy(lens) \/ TypeOf(lens) # "object"
  THEN Returned(<<MsgNotObject>>)
  ELSE IF IsArray(Get(lens, "content"))
          /\ ContentLoopThrows(Get(lens, "content").items)
       THEN Thrown
       ELSE Returned(resourceTypeErrors(lens) \o nameErrors(lens)
                     \o urlErrors(lens) \o statusErrors(lens)
                     \o contentErrors(lens))

validateFHIRLens(lens) ==
  IF Falsy(lens) \/ TypeOf(lens) # "object"
  THEN Returned(<<MsgNotObject>>)
  ELSE IF IsArray(Get(lens, "content"))
          /\ ContentLoopThrows(Get(lens, "content").items)
       THEN Thrown
       ELSE Returned(resourceTypeErrors(lens) \o urlErrors(lens)
                     \o nameErrors(lens) \o statusErrors(lens)
                     \o contentErrors(lens))

----------------------------------------------------------------------------
(* Paths: path.join, path.dirname, path.basename, path.extname *)

\* A path string is its segments plus whether the string is in the
\* normalised form path.join and path.dirname produce.  The root argument
\* may be given unnormalised ("./r", "r/"); the file system resolves both
\* spellings to the same directory, but as object keys they differ.
Path(norm, segs) == [norm |-> norm, segs |-> segs]

FileName(base, ext) == [base |-> base, ext |-> ext]

\* path.join(currentDir, file)
Join(currentDir, file) == Path(TRUE, Append(currentDir.segs, file))

\* path.dirname(filePath)
Dirname(filePath) ==
  Path(TRUE, SubSeq(filePath.segs, 1, Len(filePath.segs) - 1))

\* path.extname(file)
extname(file) == file.ext

\* path.basename(file, '.js') + '.json'
JsonSibling(file) == FileName(file.base, ".json")

NoPath == Path(TRUE, <<>>)

----------------------------------------------------------------------------
(* File system primitives *)

\* fs.readdirSync(currentDir)
readdirSync(currentDir) == tree[currentDir.segs]

\* the directory entry a path names
EntryOf(filePath) ==
  LET listing == tree[Dirname(filePath).segs]
      name == filePath.segs[Len(filePath.segs)]
  IN listing[CHOOSE i \in 1..Len(listing) : listing[i].name = name]

\* fs.statSync(filePath).isDirectory()
isDirectory(filePath) == EntryOf(filePath).body.k = "dir"

\* fs.readFileSync(filePath, 'utf8') succeeds; a file of kind "garbage"
\* reads but is not JSON, a file of kind "unreadable" does not read
Readable(filePath) == EntryOf(filePath).body.k \in {"json", "js", "garbage"}

\* fs.readdirSync(currentDir) returns instead of throwing
Listable(currentDir) == currentDir.segs \notin unlistable

RECURSIVE walkThrows(_, _)
\* traverse(currentDir), continued from listing position i, reaches a
\* directory whose fs.readdirSync throws; both walks descend alike
walkThrows(currentDir, i) ==
  IF ~Listable(currentDir) THEN TRUE
  ELSE LET files == tree[currentDir.segs] IN
       IF i > Len(files) THEN FALSE
       ELSE LET filePath == Path(TRUE, Append(currentDir.segs, files[i].name))
            IN \/ files[i].body.k = "dir" /\ walkThrows(filePath, 1)
               \/ walkThrows(currentDir, i + 1)

\* JSON.parse(fs.readFileSync(filePath, 'utf8'))
ParsedJson(filePath) == EntryOf(filePath).body.doc

\* fs.readFileSync(filePath, 'utf8') of a script
ScriptText(filePath) == EntryOf(filePath).body.text

----------------------------------------------------------------------------
(* findJsonFiles *)

RECURSIVE traverseJson_Flat(_, _)
\* traverse without the descent into subdirectories
traverseJson_Flat(currentDir, i) ==
  LET files == readdirSync(currentDir) IN
  IF i > Len(files) THEN <<>>
  ELSE LET file == files[i].name
           filePath == Join(currentDir, file)
       IN (IF ~isDirectory(filePath) /\ extname(file) = ".json"
           THEN <<filePath>> ELSE <<>>)
          \o traverseJson_Flat(currentDir, i + 1)

RECURSIVE traverseJson(_, _)
\* the paths pushed by traverse(currentDir) from listing position i on
traverseJson(currentDir, i) ==
  LET files == readdirSync(currentDir) IN
  IF i > Len(files) THEN <<>>
  ELSE LET file == files[i].name
           filePath == Join(currentDir, file)
       IN (IF isDirectory(filePath) THEN traverseJson(filePath, 1)
           ELSE IF extname(file) = ".json" THEN <<filePath>>
           ELSE <<>>)
          \o traverseJson(currentDir, i + 1)

findJsonFiles(dir) == traverseJson(dir, 1)

----------------------------------------------------------------------------
(* findEnhanceFiles *)

\* the four content.includes(...) tests; the arguments are plain string
\* literals, in which \s denotes the letter s
HasEnhanceNeedle(content) ==
  \/ Includes(content, NeedleFunction)
  \/ Includes(content, NeedleConst)
  \/ Includes(content, NeedleExport)
  \/ Includes(content, NeedleLet)

RECURSIVE traverseEnhance(_, _)
\* the registrations made by traverse(currentDir) from position i on, in
\* traversal order: the script, its exact key and its fallback key
traverseEnhance(currentDir, i) ==
  LET files == readdirSync(currentDir) IN
  IF i > Len(files) THEN <<>>
  ELSE LET file == files[i].name
           filePath == Join(currentDir, file)
       IN (IF isDirectory(filePath) THEN traverseEnhance(filePath, 1)
           ELSE IF extname(file) = ".js" /\ Readable(filePath)
                   /\ HasEnhanceNeedle(ScriptText(filePath))
                THEN <<[js |-> filePath,
                        jsonFilePath |-> Join(currentDir, JsonSibling(file)),
                        dirKey |-> currentDir]>>
                ELSE <<>>)
          \o traverseEnhance(currentDir, i + 1)

RECURSIVE ScriptsOf_Nested(_, _)
\* the fallback list of a directory taking in the scripts of the
\* directories below it
ScriptsOf_Nested(regs, dirKey) ==
  IF regs = <<>> THEN <<>>
  ELSE (IF /\ Len(regs[1].dirKey.segs) >= Len(dirKey.segs)
           /\ SubSeq(regs[1].dirKey.segs, 1, Len(dirKey.segs)) = dirKey.segs
        THEN <<regs[1].js>> ELSE <<>>)
       \o ScriptsOf_Nested(Tail(regs), dirKey)

\* the elements of s satisfying a key test, in order
RECURSIVE ScriptsOf(_, _)
ScriptsOf(regs, dirKey) ==
  IF regs = <<>> THEN <<>>
  ELSE (IF regs[1].dirKey = dirKey THEN <<regs[1].js>> ELSE <<>>)
       \o ScriptsOf(Tail(regs), dirKey)

\* the enhanceFiles object the registrations build
EnhanceFilesOf(regs) ==
  LET R == {regs[i] : i \in 1..Len(regs)}
  IN [exact |->
        [k \in {r.jsonFilePath : r \in R} |->
           (CHOOSE r \in R : r.jsonFilePath = k).js],
      fallback |->
        [d \in {r.dirKey : r \in R} |-> ScriptsOf(regs, d)]]

findEnhanceFiles(dir) == EnhanceFilesOf(traverseEnhance(dir, 1))

----------------------------------------------------------------------------
(* jsToBase64, getDefaultEnhanceBase64 *)

\* the index (0..63) of a base64 character
B64Index(c) == (CHOOSE i \in 1..64 : B64Alphabet[i] = c) - 1

B64Char(n) == B64Alphabet[n + 1]

RECURSIVE EncodeBytes(_)
\* Buffer.toString('base64') of a byte sequence
EncodeBytes(b) ==
  IF Len(b) = 0 THEN <<>>
  ELSE IF Len(b) = 1 THEN
    <<B64Char(b[1] \div 4), B64Char((b[1] % 4) * 16), "=", "=">>
  ELSE IF Len(b) = 2 THEN
    <<B64Char(b[1] \div 4), B64Char((b[1] % 4) * 16 + b[2] \div 16),
      B64Char((b[2] % 16) * 4), "=">>
  ELSE
    <<B64Char(b[1] \div 4), B64Char((b[1] % 4) * 16 + b[2] \div 16),
      B64Char((b[2] % 16) * 4 + b[3] \div 64), B64Char(b[3] % 64)>>
    \o EncodeBytes(SubSeq(b, 4, Len(b)))

RECURSIVE DecodeChars(_)
\* Buffer.from(s, 'base64') of a padded base64 string
DecodeChars(s) ==
  IF Len(s) < 4 THEN <<>>
  ELSE LET a == B64Index(s[1])
           b == B64Index(s[2])
       IN IF s[3] = "=" THEN <<a * 4 + b \div 16>>
          ELSE LET c == B64Index(s[3]) IN
               IF s[4] = "=" THEN <<a * 4 + b \div 16, (b % 16) * 16 + c \div 4>>
               ELSE <<a * 4 + b \div 16, (b % 16) * 16 + c \div 4,
                      (c % 4) * 64 + B64Index(s[4])>>
                    \o DecodeChars(SubSeq(s, 5, Len(s)))

\* Buffer.from(content): the UTF-8 bytes of an ASCII string
Utf8Bytes(content) == [i \in 1..Len(content) |-> Ord(content[i])]

\* Buffer.toString('utf8') of ASCII bytes
Utf8String(bytes) == [i \in 1..Len(bytes) |-> Chr(bytes[i])]

\* Buffer.from(content).toString('base64')
ToBase64(content) == EncodeBytes(Utf8Bytes(content))

\* Buffer.from(data, 'base64').toString('utf8')
FromBase64(data) == Utf8String(DecodeChars(data))

jsToBase64(filePath) == ToBase64(ScriptText(filePath))

getDefaultEnhanceBase64 == ToBase64(defaultEnhance)

----------------------------------------------------------------------------
(* isLensMissingBase64Content *)

\* typeof item.data === 'string' && item.data.length > 0
ItemHasNonEmptyData(item) ==
  Get(item, "data").t = "string" /\ Get(item, "data").v # <<>>

\* the predicate without the Array.isArray test: content that is present
\* but no array counts as carrying a payload
isLensMissingBase64Content_ArraysOnly(jsonData) ==
  LET content == Get(jsonData, "content") IN
  IF Falsy(content) THEN TRUE
  ELSE IF ~IsArray(content) THEN FALSE
  ELSE IF Len(content.items) = 0 THEN TRUE
  ELSE ~\E i \in 1..Len(content.items) :
          ~Falsy(content.items[i]) /\ ItemHasNonEmptyData(content.items[i])

isLensMissingBase64Content(jsonData) ==
  LET content == Get(jsonData, "content") IN
  IF Falsy(content) \/ ~IsArray(content) \/ Len(content.items) = 0
  THEN TRUE
  ELSE IF Len(content.items) = 1
       THEN Falsy(content.items[1]) \/ ~ItemHasNonEmptyData(content.items[1])
       ELSE ~\E i \in 1..Len(content.items) :
               ~Falsy(content.items[i]) /\ ItemHasNonEmptyData(content.items[i])

----------------------------------------------------------------------------
(* discoverLenses: the per-file decisions *)

\* obj with obj[key] = value
SetField(obj, key, value) ==
  JObj([k \in DOMAIN obj.f \cup {key} |-> IF k = key THEN value ELSE obj.f[k]])

\* validation.errors.length===1 && validation.errors[0].includes("content")
\*   && isLensMissingBase64Content(jsonData)
PayloadOnlyGate(validation, jsonData) ==
  /\ Len(validation.errors) = 1
  /\ Includes(validation.errors[1], WordContent)
  /\ isLensMissingBase64Content(jsonData)

\* the script chosen for filePath and the enhanceSource at that point
ResolveEnhance(ef, filePath) ==
  IF filePath \in DOMAIN ef.exact
  THEN [enhanceFile |-> ef.exact[filePath], enhanceSource |-> "exact-match"]
  ELSE IF Dirname(filePath) \in DOMAIN ef.fallback
          /\ Len(ef.fallback[Dirname(filePath)]) > 0
       THEN [enhanceFile |-> ef.fallback[Dirname(filePath)][1],
             enhanceSource |-> "fallback"]
       ELSE [enhanceFile |-> NoPath, enhanceSource |-> "exact-match"]

\* the encode step leaving enhanceSource as the resolution set it when
\* the default payload is taken
Synthesize_StaleSource(ef, filePath) ==
  LET r == ResolveEnhance(ef, filePath) IN
  IF r.enhanceFile # NoPath /\ Readable(r.enhanceFile)
  THEN [base64Content |-> jsToBase64(r.enhanceFile),
        enhanceFile |-> r.enhanceFile,
        enhanceSource |-> r.enhanceSource]
  ELSE [base64Content |-> getDefaultEnhanceBase64,
        enhanceFile |-> NoPath, enhanceSource |-> r.enhanceSource]

\* base64Content, enhanceFile and enhanceSource after the encode step
Synthesize(ef, filePath) ==
  LET r == ResolveEnhance(ef, filePath) IN
  IF r.enhanceFile # NoPath
  THEN IF Readable(r.enhanceFile)
       THEN [base64Content |-> jsToBase64(r.enhanceFile),
             enhanceFile |-> r.enhanceFile,
             enhanceSource |-> r.enhanceSource]
       ELSE [base64Content |-> getDefaultEnhanceBase64,
             enhanceFile |-> NoPath, enhanceSource |-> "default"]
  ELSE [base64Content |-> getDefaultEnhanceBase64,
        enhanceFile |-> NoPath, enhanceSource |-> "default"]

\* jsonData.content = jsonData.content || [];
\* if (jsonData.content.length === 0) jsonData.content.push({});
ContentForSplice(jsonData) ==
  LET c == IF Falsy(Get(jsonData, "content")) THEN JArr(<<>>)
           ELSE Get(jsonData, "content")
  IN IF IsArray(c) /\ Len(c.items) = 0
     THEN JArr(<<JObj([k \in {} |-> JNull])>>)
     ELSE c

\* jsonData.content[0]
FirstOfContent(c) ==
  IF IsArray(c) THEN c.items[1]
  ELSE IF c.t = "string" THEN JStr(<<c.v[1]>>)
  ELSE JUndefined

\* jsonData.content[0].data = base64Content: a TypeError when content[0] is
\* null or undefined, no effect when it is a primitive, a write otherwise
Splice(jsonData, base64Content) ==
  LET c == ContentForSplice(jsonData)
      first == FirstOfContent(c)
  IN IF ~Derefable(first) THEN [threw |-> TRUE, doc |-> jsonData]
     ELSE IF first.t = "object"
          THEN [threw |-> FALSE,
                doc |-> SetField(jsonData, "content",
                          JArr([c.items EXCEPT ![1] =
                                  SetField(first, "data",
                                           JStr(base64Content))]))]
          ELSE [threw |-> FALSE, doc |-> SetField(jsonData, "content", c)]

UnknownStr == <<"u", "n", "k", "n", "o", "w", "n">>

\* LensEntry carrying the document as it was parsed, not as it was spliced
LensEntry_Unspliced(jsonData, filePath, enhanceFile, enhanceSource) ==
  [id |-> Get(jsonData, "id"),
   name |-> Get(jsonData, "name"),
   url |-> Get(jsonData, "url"),
   version |-> IF Falsy(Get(jsonData, "version")) THEN JStr(UnknownStr)
               ELSE Get(jsonData, "version"),
   status |-> Get(jsonData, "status"),
   path |-> filePath,
   hasBase64 |-> TRUE,
   lens |-> ParsedJson(filePath),
   enhancedWithJs |-> enhanceFile,
   enhanceSource |-> enhanceSource]

\* the object pushed onto validLenses
LensEntry(jsonData, filePath, enhanceFile, enhanceSource) ==
  [id |-> Get(jsonData, "id"),
   name |-> Get(jsonData, "name"),
   url |-> Get(jsonData, "url"),
   version |-> IF Falsy(Get(jsonData, "version")) THEN JStr(UnknownStr)
               ELSE Get(jsonData, "version"),
   status |-> Get(jsonData, "status"),
   path |-> filePath,
   hasBase64 |-> TRUE,
   lens |-> jsonData,
   enhancedWithJs |-> enhanceFile,
   enhanceSource |-> enhanceSource]

\* fs.readFileSync and JSON.parse of a document file both succeed
Parses(filePath) == EntryOf(filePath).body.k = "json"

----------------------------------------------------------------------------
(* discoverLenses: the steps *)

\* lensFiles = findJsonFiles(lensFilePath)
FindJsonFiles ==
  /\ pc = "start"
  /\ ~walkThrows(root, 1)
  /\ lensFiles' = findJsonFiles(root)
  /\ pc' = "scan"
  /\ UNCHANGED <<root, tree, unlistable, enhanceFiles, idx, validLenses, enhanceLog>>
  /\ UNCHANGED validatorVars
  /\ UNCHANGED serviceVars

\* enhanceFiles = findEnhanceFiles(lensFilePath)
FindEnhanceFiles ==
  /\ pc = "scan"
  /\ ~walkThrows(root, 1)
  /\ enhanceFiles' = findEnhanceFiles(root)
  /\ idx' = 1
  /\ pc' = "loop"
  /\ UNCHANGED <<root, tree, unlistable, lensFiles, validLenses, enhanceLog>>
  /\ UNCHANGED validatorVars
  /\ UNCHANGED serviceVars

\* findJsonFiles threw: the outer catch logs and rethrows, nothing is returned
RejectJsonWalk ==
  /\ pc = "start"
  /\ walkThrows(root, 1)
  /\ pc' = "rejected"
  /\ UNCHANGED <<root, tree, unlistable, lensFiles, enhanceFiles, idx,
                 validLenses, enhanceLog>>
  /\ UNCHANGED validatorVars
  /\ UNCHANGED serviceVars

\* a failed script walk treated as "no scripts": the loop runs anyway
RejectEnhanceWalk_Partial ==
  /\ pc = "scan"
  /\ walkThrows(root, 1)
  /\ idx' = 1
  /\ pc' = "loop"
  /\ UNCHANGED <<root, tree, unlistable, lensFiles, enhanceFiles,
                 validLenses, enhanceLog>>
  /\ UNCHANGED validatorVars
  /\ UNCHANGED serviceVars

\* findEnhanceFiles threw: the outer catch logs and rethrows
RejectEnhanceWalk ==
  /\ pc = "scan"
  /\ walkThrows(root, 1)
  /\ pc' = "rejected"
  /\ UNCHANGED <<root, tree, unlistable, lensFiles, enhanceFiles, idx,
                 validLenses, enhanceLog>>
  /\ UNCHANGED validatorVars
  /\ UNCHANGED serviceVars

\* the file system changes between the two walks: a directory that
\* findJsonFiles listed can no longer be listed
DirectoryLost ==
  /\ pc = "scan"
  /\ unlistable = {}
  /\ \E d \in DOMAIN tree : unlistable' = {d}
  /\ UNCHANGED <<root, tree, pc, lensFiles, enhanceFiles, idx, validLenses,
                 enhanceLog>>
  /\ UNCHANGED validatorVars
  /\ UNCHANGED serviceVars

InLoop == pc = "loop" /\ idx <= Len(lensFiles)

\* the per-file catch taken as fatal to what was collected so far
SkipError_Drops ==
  /\ InLoop
  /\ \/ ~Parses(lensFiles[idx])
     \/ /\ Parses(lensFiles[idx])
        /\ validateFHIRLens(ParsedJson(lensFiles[idx])).threw
  /\ idx' = idx + 1
  /\ validLenses' = <<>>
  /\ UNCHANGED <<root, tree, unlistable, pc, lensFiles, enhanceFiles,
                 enhanceLog>>
  /\ UNCHANGED validatorVars
  /\ UNCHANGED serviceVars

\* read, parse or validation threw: the per-file catch
SkipError ==
  /\ InLoop
  /\ \/ ~Parses(lensFiles[idx])
     \/ /\ Parses(lensFiles[idx])
        /\ validateFHIRLens(ParsedJson(lensFiles[idx])).threw
  /\ idx' = idx + 1
  /\ UNCHANGED <<root, tree, unlistable, pc, lensFiles, enhanceFiles, validLenses,
                 enhanceLog>>
  /\ UNCHANGED validatorVars
  /\ UNCHANGED serviceVars

\* a valid document put in front of what was collected
EmitValid_Prepend ==
  /\ InLoop
  /\ Parses(lensFiles[idx])
  /\ LET filePath == lensFiles[idx]
         jsonData == ParsedJson(filePath)
         validation == validateFHIRLens(jsonData)
     IN /\ ~validation.threw
        /\ validation.isValid
        /\ validLenses' =
             <<LensEntry(jsonData, filePath, NoPath, "none")>> \o validLenses
  /\ idx' = idx + 1
  /\ UNCHANGED <<root, tree, unlistable, pc, lensFiles, enhanceFiles,
                 enhanceLog>>
  /\ UNCHANGED validatorVars
  /\ UNCHANGED serviceVars

\* validation.isValid: the document is pushed as it was parsed
EmitValid ==
  /\ InLoop
  /\ Parses(lensFiles[idx])
  /\ LET filePath == lensFiles[idx]
         jsonData == ParsedJson(filePath)
         validation == validateFHIRLens(jsonData)
     IN /\ ~validation.threw
        /\ validation.isValid
        /\ validLenses' =
             Append(validLenses, LensEntry(jsonData, filePath, NoPath, "none"))
  /\ idx' = idx + 1
  /\ UNCHANGED <<root, tree, unlistable, pc, lensFiles, enhanceFiles, enhanceLog>>
  /\ UNCHANGED validatorVars
  /\ UNCHANGED serviceVars

\* the payload-only branch: resolve a script, encode, splice, revalidate
EnhanceLens ==
  /\ InLoop
  /\ Parses(lensFiles[idx])
  /\ LET filePath == lensFiles[idx]
         jsonData == ParsedJson(filePath)
         validation == validateFHIRLens(jsonData)
     IN /\ ~validation.threw
        /\ ~validation.isValid
        /\ PayloadOnlyGate(validation, jsonData)
        /\ LET s == Synthesize(enhanceFiles, filePath)
               spliced == Splice(jsonData, s.base64Content)
               revalidation == validateFHIRLens(spliced.doc)
           IN validLenses' =
                IF ~spliced.threw /\ ~revalidation.threw
                   /\ revalidation.isValid
                THEN Append(validLenses,
                            LensEntry(spliced.doc, filePath, s.enhanceFile,
                                      s.enhanceSource))
                ELSE validLenses
        /\ enhanceLog' = enhanceLog \cup {filePath}
  /\ idx' = idx + 1
  /\ UNCHANGED <<root, tree, unlistable, pc, lensFiles, enhanceFiles>>
  /\ UNCHANGED validatorVars
  /\ UNCHANGED serviceVars

\* neither valid nor payload-only: logged and skipped
SkipInvalid ==
  /\ InLoop
  /\ Parses(lensFiles[idx])
  /\ LET jsonData == ParsedJson(lensFiles[idx])
         validation == validateFHIRLens(jsonData)
     IN /\ ~validation.threw
        /\ ~validation.isValid
        /\ ~PayloadOnlyGate(validation, jsonData)
  /\ idx' = idx + 1
  /\ UNCHANGED <<root, tree, unlistable, pc, lensFiles, enhanceFiles, validLenses,
                 enhanceLog>>
  /\ UNCHANGED validatorVars
  /\ UNCHANGED serviceVars

\* return validLenses
ReturnLenses ==
  /\ pc = "loop"
  /\ idx > Len(lensFiles)
  /\ pc' = "done"
  /\ UNCHANGED <<root, tree, unlistable, lensFiles, enhanceFiles, idx, validLenses,
                 enhanceLog>>
  /\ UNCHANGED validatorVars
  /\ UNCHANGED serviceVars

\* a direct call validateFHIRLens(vLens)
Validate ==
  /\ vpc = "call"
  /\ vResult' = validateFHIRLens(vLens)
  /\ vpc' = IF validateFHIRLens(vLens).threw THEN "threw" ELSE "returned"
  /\ UNCHANGED vLens
  /\ UNCHANGED pipelineVars
  /\ UNCHANGED serviceVars
----------------------------------------------------------------------------
(* lensService: the cache and the calls *)

\* CACHE_TTL, in ticks of the clock
CACHE_TTL == 1

\* the latest value of Date.now()
MaxClock == 2

\* the most getLenses calls awaiting discoverLenses at one time
MaxPending == 2

\* the most lenses a discovery returns in lookups
MaxLenses == 2

UndefinedStr ==
  <<"u", "n", "d", "e", "f", "i", "n", "e", "d">>

NullStr ==
  <<"n", "u", "l", "l">>

\* ${v} in a template literal
Template(v) ==
  IF v.t = "string" THEN v.v
  ELSE IF v.t = "undefined" THEN UndefinedStr
  ELSE NullStr

\* `${repoUrl}:${branch}:${lensFilePath}`
cacheKey(repoUrl, branch, lensFilePath) ==
  Template(repoUrl) \o <<":">> \o Template(branch) \o <<":">>
    \o Template(lensFilePath)

MsgRepoUrl ==
  <<"G", "I", "T", "_", "R", "E", "P", "O", "_", "U", "R", "L", " ", "e",
    "n", "v", "i", "r", "o", "n", "m", "e", "n", "t", " ", "v", "a", "r",
    "i", "a", "b", "l", "e", " ", "i", "s", " ", "r", "e", "q", "u", "i",
    "r", "e", "d">>

MsgDiscoverFailed ==
  <<"D", "i", "s", "c", "o", "v", "e", "r", " ", "f", "a", "i", "l", "e",
    "d">>

MsgNotFoundHead ==
  <<"L", "e", "n", "s", " ", "'">>

MsgNotFoundTail ==
  <<"'", " ", "n", "o", "t", " ", "f", "o", "u", "n", "d">>

ErrLensNotFound ==
  <<"L", "e", "n", "s", " ", "n", "o", "t", " ", "f", "o", "u", "n", "d">>

ErrFetchLenses ==
  <<"F", "a", "i", "l", "e", "d", " ", "t", "o", " ", "f", "e", "t", "c",
    "h", " ", "l", "e", "n", "s", "e", "s">>

ErrFetchLens ==
  <<"F", "a", "i", "l", "e", "d", " ", "t", "o", " ", "f", "e", "t", "c",
    "h", " ", "l", "e", "n", "s">>

\* an Error object: its message and its statusCode (0 when it has none)
Error(message, statusCode) == [message |-> message, statusCode |-> statusCode]

NoError == Error(<<>>, 0)

\* new Error('GIT_REPO_URL environment variable is required')
RepoUrlError == Error(MsgRepoUrl, 0)

\* `Lens '${lensName}' not found` with statusCode 404
NotFoundError(lensName) ==
  Error(MsgNotFoundHead \o lensName \o MsgNotFoundTail, 404)

\* the arguments (repoUrl, branch, lensFilePath)
Triple(repoUrl, branch, lensFilePath) ==
  [repoUrl |-> repoUrl, branch |-> branch, lensFilePath |-> lensFilePath]

KeyOf(t) == cacheKey(t.repoUrl, t.branch, t.lensFilePath)

\* the freshness test with a time-to-live one tick shorter
Fresh_Shorter(key) ==
  /\ key \in DOMAIN lensCache
  /\ clock - lensCache[key].timestamp < CACHE_TTL - 1

\* the freshness test with <= in place of <
Fresh_Inclusive(key) ==
  /\ key \in DOMAIN lensCache
  /\ clock - lensCache[key].timestamp <= CACHE_TTL

\* lensCache.has(cacheKey) && Date.now() - cached.timestamp < CACHE_TTL
Fresh(key) ==
  /\ key \in DOMAIN lensCache
  /\ clock - lensCache[key].timestamp < CACHE_TTL

\* lensCache.delete(cacheKey)
CacheDelete(key) == [k \in DOMAIN lensCache \ {key} |-> lensCache[k]]

\* lensCache.set(cacheKey, { lenses, timestamp: Date.now() })
CacheSet(key, lenses) ==
  [k \in DOMAIN lensCache \cup {key} |->
     IF k = key THEN [lenses |-> lenses, timestamp |-> clock]
     ELSE lensCache[k]]

EmptyMap == [k \in {} |-> 0]

----------------------------------------------------------------------------
(* lensService and the routes: what a call makes of the outcome of getLenses *)

\* the outcome of an awaited call: resolved with a value or rejected with
\* an error
Resolved(value) == [ok |-> TRUE, value |-> value, error |-> NoError]
Rejected(error) == [ok |-> FALSE, value |-> <<>>, error |-> error]

\* lenses.find((l) => l.name === lensName || l.id === lensName): the
\* position of the first match, 0 when there is none
FindLens(lenses, lensName) ==
  LET hits == {i \in 1..Len(lenses) :
                 lenses[i].name = JStr(lensName) \/ lenses[i].id = JStr(lensName)}
  IN IF hits = {} THEN 0
     ELSE CHOOSE i \in hits : \A j \in hits : i <= j

\* find returning the last match instead of the first
getLensByName_Last(got, lensName) ==
  IF ~got.ok THEN got
  ELSE LET hits == {i \in 1..Len(got.value) :
                      \/ got.value[i].name = JStr(lensName)
                      \/ got.value[i].id = JStr(lensName)}
       IN IF hits = {} THEN Rejected(NotFoundError(lensName))
          ELSE Resolved(
                 got.value[CHOOSE i \in hits : \A j \in hits : i >= j].lens)

\* getLensByName, given what its getLenses call came to
getLensByName(got, lensName) ==
  IF ~got.ok THEN got
  ELSE LET i == FindLens(got.value, lensName)
       IN IF i = 0 THEN Rejected(NotFoundError(lensName))
          ELSE Resolved(got.value[i].lens)

\* getLensNames with the names in place of the ids
getLensNames_Names(got) ==
  IF ~got.ok THEN got
  ELSE Resolved([i \in 1..Len(got.value) |-> got.value[i].name])

\* getLensNames, given what its getLenses call came to
getLensNames(got) ==
  IF ~got.ok THEN got
  ELSE Resolved([i \in 1..Len(got.value) |-> got.value[i].id])

\* an HTTP response
Response(status, body) == [status |-> status, body |-> body]

\* the body { error, message }
ErrorBody(error, message) ==
  [kind |-> "error", error |-> error, message |-> message]

\* router.get('/') after getLensNames settled
ListHandler(got) ==
  LET names == getLensNames(got)
  IN IF names.ok
     THEN <<Response(200, [kind |-> "lenses", lenses |-> names.value])>>
     ELSE <<Response(500, ErrorBody(ErrFetchLenses, names.error.message))>>

\* router.get('/:name') answering 404 for every failure
NameHandler_All404(got, name) ==
  LET lens == getLensByName(got, name)
  IN IF lens.ok
     THEN <<Response(200, [kind |-> "lens", lens |-> lens.value])>>
     ELSE <<Response(404, ErrorBody(ErrLensNotFound, lens.error.message))>>

\* router.get('/:name') after getLensByName settled
NameHandler(got, name) ==
  LET lens == getLensByName(got, name)
  IN IF lens.ok
     THEN <<Response(200, [kind |-> "lens", lens |-> lens.value])>>
     ELSE IF lens.error.statusCode = 404
     THEN <<Response(404, ErrorBody(ErrLensNotFound, lens.error.message))>>
     ELSE <<Response(500, ErrorBody(ErrFetchLens, lens.error.message))>>

\* what the caller of a call of the given kind receives, and the responses
\* a route sends, once its getLenses call has come to got
Settle(kind, lensName, got) ==
  CASE kind = "getLenses" -> [result |-> got, responses |-> <<>>]
    [] kind = "getLensByName" ->
         [result |-> getLensByName(got, lensName), responses |-> <<>>]
    [] kind = "getLensNames" ->
         [result |-> getLensNames(got), responses |-> <<>>]
    [] kind = "GET /" ->
         [result |-> getLensNames(got), responses |-> ListHandler(got)]
    [] kind = "GET /:name" ->
         [result |-> getLensByName(got, lensName),
          responses |-> NameHandler(got, lensName)]

----------------------------------------------------------------------------
(* lensService: the state when nothing has been called *)

NoTriple == Triple(JUndefined, JUndefined, JUndefined)

NoOutcome == Rejected(NoError)

\* the value of `last` after a step that neither began nor settled a call
NoCall ==
  [kind |-> "none", triple |-> NoTriple, lensName |-> <<>>, began |-> FALSE,
   st |-> "none", hit |-> FALSE, expired |-> FALSE, got |-> NoOutcome,
   result |-> NoOutcome, responses |-> <<>>]

NoWorld == "none"

ServiceIdle ==
  /\ lensCache = EmptyMap
  /\ clock = 0
  /\ pending = <<>>
  /\ last = NoCall
  /\ owner = EmptyMap
  /\ uncalled = {}
  /\ world = NoWorld
  /\ env = NoTriple


----------------------------------------------------------------------------
(* Inputs: documents *)

EmptyObj == JObj([k \in {} |-> JNull])

\* "QQ==", the base64 of "A"
SomeData == JStr(<<"Q", "Q", "=", "=">>)

DataItem == JObj([k \in {"data"} |-> SomeData])

\* a document with the given fields; a field whose value is undefined is
\* absent from the object
Doc(resourceType, id, url, name, status, content) ==
  LET val == [resourceType |-> resourceType, id |-> id, url |-> url,
              name |-> name, status |-> status, content |-> content]
  IN JObj([k \in {k \in DOMAIN val : val[k].t # "undefined"} |-> val[k]])

GoodType == JStr(LibraryStr)
GoodId == JStr(<<"x">>)
GoodUrl == JStr(<<"u">>)
GoodName == JStr(<<"n">>)
GoodStatus == JStr(<<"d", "r", "a", "f", "t">>)

\* a document whose only possible defect is its content
DocWith(content) == Doc(GoodType, GoodId, GoodUrl, GoodName, GoodStatus, content)

\* the documents placed in trees
TreeDocs ==
  { DocWith(JArr(<<DataItem>>)),                  \* valid
    DocWith(JUndefined),                          \* content absent
    DocWith(JArr(<<>>)),                          \* content []
    DocWith(JArr(<<EmptyObj>>)),                  \* content [{}]
    DocWith(EmptyObj),                            \* content {} (not an array)
    DocWith(JArr(<<JNull>>)),                     \* content [null]
    Doc(GoodType, GoodId, GoodUrl, GoodName, JUndefined, JArr(<<>>)),
    Doc(GoodType, GoodId, GoodUrl, JUndefined, GoodStatus, JArr(<<DataItem>>)),
    Doc(GoodType, JUndefined, GoodUrl, GoodName, GoodStatus, JArr(<<DataItem>>)) }

\* a script declaring enhance the way the documentation shows
TextDeclared ==
  <<"f", "u", "n", "c", "t", "i", "o", "n", " ", "e", "n", "h", "a", "n", 
    "c", "e", "(", "d", ")", "{", "r", "e", "t", "u", "r", "n", " ", "d", 
    ";", "}">>

\* a script holding the characters the first includes test looks for
TextLiteral ==
  <<"f", "u", "n", "c", "t", "i", "o", "n", "s", "+", "e", "n", "h", "a", 
    "n", "c", "e">>

\* the script texts placed in trees
TreeTexts == { TextDeclared, TextLiteral }

----------------------------------------------------------------------------
(* Inputs: file trees *)

RootName == FileName("r", "")
SubA == FileName("a", "")
SubB == FileName("b", "")

\* r, r/a, r/a/a, ... down to depth k
RECURSIVE Chain(_)
Chain(k) == IF k = 0 THEN <<RootName>> ELSE Append(Chain(k - 1), SubA)

\* the directories of every tree: a chain below the root and a sibling r/b
Dirs == {Chain(k) : k \in 0..MaxDepth} \cup {<<RootName, SubB>>}

JsonNames == { FileName("x", ".json") }
JsNames == { FileName("x", ".js"), FileName("z", ".js") }

Slots ==
  {[dir |-> d, name |-> n, body |-> [k |-> "json", doc |-> x]] :
     d \in Dirs, n \in JsonNames, x \in TreeDocs}
  \cup
  {[dir |-> d, name |-> n, body |-> [k |-> "js", text |-> x]] :
     d \in Dirs, n \in JsNames, x \in TreeTexts}

\* file placements: at most MaxFiles files, no name twice in a directory
Placements ==
  {p \in UNION {[1..n -> Slots] : n \in 0..MaxFiles} :
     \A i, j \in 1..Len(p) :
       i # j => ~(p[i].dir = p[j].dir /\ p[i].name = p[j].name)}

DirEntry(name) == [name |-> name, body |-> [k |-> "dir"]]

RECURSIVE FilesIn(_, _)
\* the files placed in directory d, in placement order
FilesIn(p, d) ==
  IF p = <<>> THEN <<>>
  ELSE (IF p[1].dir = d THEN <<[name |-> p[1].name, body |-> p[1].body]>>
        ELSE <<>>) \o FilesIn(Tail(p), d)

\* the listing readdirSync gives for d: subdirectory a, the files, and at
\* the root subdirectory b
Listing(p, d) ==
  (IF Append(d, SubA) \in Dirs THEN <<DirEntry(SubA)>> ELSE <<>>)
  \o FilesIn(p, d)
  \o (IF Append(d, SubB) \in Dirs THEN <<DirEntry(SubB)>> ELSE <<>>)

TreeOf(p) == [d \in Dirs |-> Listing(p, d)]

----------------------------------------------------------------------------
(* Inputs: arguments of direct validateFHIRLens calls *)

StringFieldValues == {JUndefined, JStr(<<>>), JStr(<<"u">>), JNum(5)}

Items == {JNull, JNum(5), EmptyObj, DataItem,
          JObj([k \in {"data"} |-> JStr(<<>>)]),
          JObj([k \in {"data"} |-> JNum(5)])}

ContentValues ==
  {JUndefined, JNull, JStr(<<"a", "b">>), EmptyObj}
  \cup {JArr(s) : s \in UNION {[1..n -> Items] : n \in 0..MaxItems}}

ObjectInputs ==
  {Doc(rt, id, url, name, status, content) :
     rt \in {JUndefined, GoodType, JStr(PatientStr)},
     id \in {JUndefined, GoodId},
     url \in StringFieldValues, name \in StringFieldValues,
     status \in StringFieldValues, content \in ContentValues}

NonObjectInputs ==
  {JUndefined, JNull, JStr(<<>>), JStr(<<"n", "o">>), JNum(0), JNum(5),
   JBool(FALSE), JBool(TRUE)}

ValidateInputs == ObjectInputs \cup NonObjectInputs \cup {JArr(<<>>)}

----------------------------------------------------------------------------
(* Specifications *)

NoResult == [threw |-> FALSE, isValid |-> FALSE, errors |-> <<>>]

NoEnhanceFiles ==
  [exact |-> [k \in {} |-> NoPath], fallback |-> [k \in {} |-> <<>>]]

\* discoverLenses(root) is about to run on some tree
Init ==
  /\ root = Path(TRUE, <<RootName>>)
  /\ tree \in {TreeOf(p) : p \in Placements}
  /\ pc = "start"
  /\ lensFiles = <<>>
  /\ enhanceFiles = NoEnhanceFiles
  /\ idx = 0
  /\ validLenses = <<>>
  /\ enhanceLog = {}
  /\ unlistable = {}
  /\ vLens = JUndefined
  /\ vResult = NoResult
  /\ vpc = "idle"
  /\ ServiceIdle

Next ==
  \/ FindJsonFiles
  \/ FindEnhanceFiles
  \/ SkipError
  \/ EmitValid
  \/ EnhanceLens
  \/ SkipInvalid
  \/ ReturnLenses

Spec == Init /\ [][Next]_vars

\* the documents and the unusable files placed in trees with faults
FaultBodies ==
  { [k |-> "json", doc |-> DocWith(JArr(<<DataItem>>))],     \* valid
    [k |-> "json", doc |-> DocWith(JArr(<<>>))],             \* enhanced
    [k |-> "json", doc |-> DocWith(JArr(<<JNull>>))],        \* validation throws
    [k |-> "json", doc |-> DocWith(EmptyObj)],               \* splice throws
    [k |-> "json",
     doc |-> Doc(GoodType, GoodId, GoodUrl, JUndefined, GoodStatus,
                 JArr(<<DataItem>>))],                       \* invalid
    [k |-> "unreadable"],                                    \* read throws
    [k |-> "garbage"] }                                      \* parse throws

FaultSlots ==
  {[dir |-> d, name |-> n, body |-> b] :
     d \in Dirs, n \in JsonNames, b \in FaultBodies}
  \cup
  {[dir |-> d, name |-> FileName("x", ".js"),
    body |-> [k |-> "js", text |-> TextLiteral]] : d \in Dirs}

FaultPlacements ==
  {p \in UNION {[1..n -> FaultSlots] : n \in 0..MaxFiles} :
     \A i, j \in 1..Len(p) :
       i # j => ~(p[i].dir = p[j].dir /\ p[i].name = p[j].name)}

\* discoverLenses(root) is about to run on a tree in which files may be
\* unreadable or unparseable and one directory may be unlistable (the root
\* being unlistable stands for a root that does not exist)
InitFaults ==
  /\ root = Path(TRUE, <<RootName>>)
  /\ tree \in {TreeOf(p) : p \in FaultPlacements}
  /\ unlistable \in {{}} \cup {{d} : d \in Dirs}
  /\ pc = "start"
  /\ lensFiles = <<>>
  /\ enhanceFiles = NoEnhanceFiles
  /\ idx = 0
  /\ validLenses = <<>>
  /\ enhanceLog = {}
  /\ vLens = JUndefined
  /\ vResult = NoResult
  /\ vpc = "idle"
  /\ ServiceIdle

NextFaults ==
  \/ FindJsonFiles
  \/ RejectJsonWalk
  \/ DirectoryLost
  \/ FindEnhanceFiles
  \/ RejectEnhanceWalk
  \/ SkipError
  \/ EmitValid
  \/ EnhanceLens
  \/ SkipInvalid
  \/ ReturnLenses

SpecFaults == InitFaults /\ [][NextFaults]_vars

\* validateFHIRLens is about to be called on some value
InitValidate ==
  /\ root = Path(TRUE, <<RootName>>)
  /\ tree = TreeOf(<<>>)
  /\ pc = "idle"
  /\ lensFiles = <<>>
  /\ enhanceFiles = NoEnhanceFiles
  /\ idx = 0
  /\ validLenses = <<>>
  /\ enhanceLog = {}
  /\ unlistable = {}
  /\ vLens \in ValidateInputs
  /\ vResult = NoResult
  /\ vpc = "call"
  /\ ServiceIdle

NextValidate == Validate

SpecValidate == InitValidate /\ [][NextValidate]_vars

----------------------------------------------------------------------------
(* lensService: inputs *)

\* two triples whose cache keys are the same string "u:b:c:d", a triple
\* with a key of its own, and a triple without repository
TripleA == Triple(JStr(<<"u">>), JStr(<<"b">>), JStr(<<"c", ":", "d">>))
TripleB == Triple(JStr(<<"u", ":", "b">>), JStr(<<"c">>), JStr(<<"d">>))
TripleC == Triple(JStr(<<"u">>), JStr(<<"c">>), JUndefined)
TripleD == Triple(JUndefined, JStr(<<"b">>), JUndefined)

Triples == {TripleA, TripleB, TripleC, TripleD}

\* a valid document with the given id and name
LensDoc(id, name) ==
  Doc(GoodType, id, GoodUrl, name, GoodStatus, JArr(<<DataItem>>))

\* the entry discoverLenses returns for such a document
Lens(base, id, name) ==
  LensEntry(LensDoc(id, name),
            Path(TRUE, <<RootName, FileName(base, ".json")>>), NoPath, "none")

\* a lens found by its id "p" or its name "q", and a lens of the same name
\* that the validator let through without id
LensP == Lens("p", JStr(<<"p">>), JStr(<<"q">>))
LensNoId == Lens("n", JUndefined, JStr(<<"q">>))

\* the requested names
LensNames == {<<"p">>, <<"q">>}

DiscoverFailed == Error(MsgDiscoverFailed, 0)

\* a rejection that itself carries statusCode 404
DiscoverFailed404 == Error(MsgDiscoverFailed, 404)

CacheWorld == "cache"

LookupWorld == "lookup"

\* what discoverLenses can resolve to or reject with.  For the cache: two
\* results that differ (no lens, one lens) and a failure.  For the lookups:
\* every list of up to MaxLenses lenses, and failures with and without
\* statusCode 404
Discoveries(w) ==
  IF w = CacheWorld
  THEN [lists |-> {<<>>, <<LensP>>}, errors |-> {DiscoverFailed}]
  ELSE [lists |->
          UNION {[1..n -> {LensP, LensNoId}] : n \in 0..MaxLenses},
        errors |-> {DiscoverFailed, DiscoverFailed404}]

----------------------------------------------------------------------------
(* lensService and the routes: the steps *)

\* the record of a call of the given kind in state st; expired is set by
\* the call that found an entry too old and deleted it
CallRecord(kind, t, lensName, began, st, hit, got) ==
  [kind |-> kind, triple |-> t, lensName |-> lensName, began |-> began,
   st |-> st, hit |-> hit, expired |-> FALSE, got |-> got,
   result |-> IF st = "awaiting" THEN NoOutcome
              ELSE Settle(kind, lensName, got).result,
   responses |-> IF st = "awaiting" THEN <<>>
                 ELSE Settle(kind, lensName, got).responses]

\* s without its i-th element
Without(s, i) == SubSeq(s, 1, i - 1) \o SubSeq(s, i + 1, Len(s))

\* getLenses(t.repoUrl, t.branch, t.lensFilePath) inside a call of the
\* given kind, up to the point where it throws, returns the cached lenses
\* or awaits discoverLenses: whether the step can be taken, and the cache,
\* the pending calls and the record of the call after it
Begin(kind, t, lensName) ==
  IF Falsy(t.repoUrl)
  THEN LET got == Rejected(RepoUrlError) IN
       [enabled |-> TRUE, lensCache |-> lensCache, pending |-> pending,
        last |-> CallRecord(kind, t, lensName, TRUE,
                            IF Settle(kind, lensName, got).result.ok
                            THEN "resolved" ELSE "rejected",
                            FALSE, got)]
  ELSE IF Fresh(KeyOf(t))
  THEN LET got == Resolved(lensCache[KeyOf(t)].lenses) IN
       [enabled |-> TRUE, lensCache |-> lensCache, pending |-> pending,
        last |-> CallRecord(kind, t, lensName, TRUE,
                            IF Settle(kind, lensName, got).result.ok
                            THEN "resolved" ELSE "rejected",
                            TRUE, got)]
  ELSE [enabled |-> Len(pending) < MaxPending,
        lensCache |-> CacheDelete(KeyOf(t)),
        pending |-> Append(pending, [kind |-> kind, triple |-> t,
                                     lensName |-> lensName]),
        last |-> [CallRecord(kind, t, lensName, TRUE, "awaiting", FALSE,
                             NoOutcome)
                    EXCEPT !.expired = KeyOf(t) \in DOMAIN lensCache]]

\* the owners of the entries that remain in a cache
OwnersIn(cache) == [k \in DOMAIN cache |-> owner[k]]

\* getLenses(repoUrl, branch, lensFilePath)
GetLensesCall ==
  \E t \in Triples :
    LET b == Begin("getLenses", t, <<>>) IN
    /\ b.enabled
    /\ lensCache' = b.lensCache
    /\ owner' = OwnersIn(b.lensCache)
    /\ pending' = b.pending
    /\ last' = b.last
    /\ uncalled' = uncalled \ {t}
    /\ UNCHANGED <<clock, world, env>>
    /\ UNCHANGED pipelineVars
    /\ UNCHANGED validatorVars

\* getLensByName(repoUrl, branch, lensFilePath, lensName)
GetLensByNameCall ==
  \E t \in {TripleC}, lensName \in LensNames :
    LET b == Begin("getLensByName", t, lensName) IN
    /\ b.enabled
    /\ lensCache' = b.lensCache
    /\ owner' = OwnersIn(b.lensCache)
    /\ pending' = b.pending
    /\ last' = b.last
    /\ uncalled' = uncalled \ {t}
    /\ UNCHANGED <<clock, world, env>>
    /\ UNCHANGED pipelineVars
    /\ UNCHANGED validatorVars

\* getLensNames(repoUrl, branch, lensFilePath)
GetLensNamesCall ==
  \E t \in {TripleC} :
    LET b == Begin("getLensNames", t, <<>>) IN
    /\ b.enabled
    /\ lensCache' = b.lensCache
    /\ owner' = OwnersIn(b.lensCache)
    /\ pending' = b.pending
    /\ last' = b.last
    /\ uncalled' = uncalled \ {t}
    /\ UNCHANGED <<clock, world, env>>
    /\ UNCHANGED pipelineVars
    /\ UNCHANGED validatorVars

\* GET /lenses: the handler calls getLensNames with the environment's triple
ListRequest ==
  LET b == Begin("GET /", env, <<>>) IN
  /\ b.enabled
  /\ lensCache' = b.lensCache
  /\ owner' = OwnersIn(b.lensCache)
  /\ pending' = b.pending
  /\ last' = b.last
  /\ uncalled' = uncalled \ {env}
  /\ UNCHANGED <<clock, world, env>>
  /\ UNCHANGED pipelineVars
  /\ UNCHANGED validatorVars

\* GET /lenses/:name: the handler calls getLensByName with the environment's
\* triple and req.params.name
NameRequest ==
  \E name \in LensNames :
    LET b == Begin("GET /:name", env, name) IN
    /\ b.enabled
    /\ lensCache' = b.lensCache
    /\ owner' = OwnersIn(b.lensCache)
    /\ pending' = b.pending
    /\ last' = b.last
    /\ uncalled' = uncalled \ {env}
    /\ UNCHANGED <<clock, world, env>>
    /\ UNCHANGED pipelineVars
    /\ UNCHANGED validatorVars

\* discoverLenses rejects and the result is cached all the same
DiscoverRejects_Cached ==
  \E i \in 1..Len(pending), e \in Discoveries(world).errors :
    LET c == pending[i] IN
    /\ lensCache' = CacheSet(KeyOf(c.triple), <<>>)
    /\ owner' = [k \in DOMAIN owner \cup {KeyOf(c.triple)} |->
                   IF k = KeyOf(c.triple) THEN c.triple ELSE owner[k]]
    /\ pending' = Without(pending, i)
    /\ last' = CallRecord(c.kind, c.triple, c.lensName, FALSE, "rejected",
                          FALSE, Rejected(e))
    /\ UNCHANGED <<clock, uncalled, world, env>>
    /\ UNCHANGED pipelineVars
    /\ UNCHANGED validatorVars

\* one discovery shared by the calls of a key: its resolution settles every
\* pending call for the key
DiscoverResolves_Shared ==
  \E i \in 1..Len(pending), lenses \in Discoveries(world).lists :
    LET c == pending[i]
        got == Resolved(lenses)
        others(x) == KeyOf(x.triple) # KeyOf(c.triple)
    IN /\ lensCache' = CacheSet(KeyOf(c.triple), lenses)
       /\ owner' = [k \in DOMAIN owner \cup {KeyOf(c.triple)} |->
                      IF k = KeyOf(c.triple) THEN c.triple ELSE owner[k]]
       /\ pending' = SelectSeq(pending, others)
       /\ last' = CallRecord(c.kind, c.triple, c.lensName, FALSE,
                             IF Settle(c.kind, c.lensName, got).result.ok
                             THEN "resolved" ELSE "rejected",
                             FALSE, got)
       /\ UNCHANGED <<clock, uncalled, world, env>>
       /\ UNCHANGED pipelineVars
       /\ UNCHANGED validatorVars

\* clearCache that also drops the discoveries in flight
ClearCache_Cancels ==
  /\ lensCache' = EmptyMap
  /\ owner' = EmptyMap
  /\ pending' = <<>>
  /\ uncalled' = Triples \ {TripleD}
  /\ last' = NoCall
  /\ UNCHANGED <<clock, world, env>>
  /\ UNCHANGED pipelineVars
  /\ UNCHANGED validatorVars

\* the discoverLenses promise of a pending call resolves: the result is
\* cached with the current time and the call goes on to its end
DiscoverResolves ==
  \E i \in 1..Len(pending), lenses \in Discoveries(world).lists :
    LET c == pending[i]
        got == Resolved(lenses)
    IN /\ lensCache' = CacheSet(KeyOf(c.triple), lenses)
       /\ owner' = [k \in DOMAIN owner \cup {KeyOf(c.triple)} |->
                      IF k = KeyOf(c.triple) THEN c.triple ELSE owner[k]]
       /\ pending' = Without(pending, i)
       /\ last' = CallRecord(c.kind, c.triple, c.lensName, FALSE,
                             IF Settle(c.kind, c.lensName, got).result.ok
                             THEN "resolved" ELSE "rejected",
                             FALSE, got)
       /\ UNCHANGED <<clock, uncalled, world, env>>
       /\ UNCHANGED pipelineVars
       /\ UNCHANGED validatorVars

\* the discoverLenses promise of a pending call rejects: getLenses logs and
\* rethrows, the cache is not touched
DiscoverRejects ==
  \E i \in 1..Len(pending), e \in Discoveries(world).errors :
    LET c == pending[i] IN
    /\ pending' = Without(pending, i)
    /\ last' = CallRecord(c.kind, c.triple, c.lensName, FALSE, "rejected",
                          FALSE, Rejected(e))
    /\ UNCHANGED <<lensCache, clock, owner, uncalled, world, env>>
    /\ UNCHANGED pipelineVars
    /\ UNCHANGED validatorVars

\* time passes
Tick ==
  /\ clock < MaxClock
  /\ clock' = clock + 1
  /\ last' = NoCall
  /\ UNCHANGED <<lensCache, pending, owner, uncalled, world, env>>
  /\ UNCHANGED pipelineVars
  /\ UNCHANGED validatorVars

\* clearCache that leaves the Map as it is
ClearCache_Keeps ==
  /\ owner' = EmptyMap
  /\ uncalled' = Triples \ {TripleD}
  /\ last' = NoCall
  /\ UNCHANGED <<lensCache, clock, pending, world, env>>
  /\ UNCHANGED pipelineVars
  /\ UNCHANGED validatorVars

\* clearCache()
ClearCache ==
  /\ lensCache' = EmptyMap
  /\ owner' = EmptyMap
  /\ uncalled' = Triples \ {TripleD}
  /\ last' = NoCall
  /\ UNCHANGED <<clock, pending, world, env>>
  /\ UNCHANGED pipelineVars
  /\ UNCHANGED validatorVars

----------------------------------------------------------------------------
(* lensService: specifications *)

\* discoverLenses is not running and validateFHIRLens is not being called
PipelineIdle ==
  /\ root = Path(TRUE, <<RootName>>)
  /\ tree = TreeOf(<<>>)
  /\ unlistable = {}
  /\ pc = "idle"
  /\ lensFiles = <<>>
  /\ enhanceFiles = NoEnhanceFiles
  /\ idx = 0
  /\ validLenses = <<>>
  /\ enhanceLog = {}
  /\ vLens = JUndefined
  /\ vResult = NoResult
  /\ vpc = "idle"

\* the service has just been loaded; getLenses is called with any of the
\* triples, time passes and the cache is cleared at any moment
InitCache ==
  /\ PipelineIdle
  /\ lensCache = EmptyMap
  /\ clock = 0
  /\ pending = <<>>
  /\ last = NoCall
  /\ owner = EmptyMap
  /\ uncalled = {}
  /\ world = CacheWorld
  /\ env = TripleC

NextCache ==
  \/ GetLensesCall
  \/ DiscoverResolves
  \/ DiscoverRejects
  \/ Tick
  \/ ClearCache

SpecCache == InitCache /\ [][NextCache]_vars

\* the service has just been loaded; lenses are looked up through the
\* service functions and through the routes
InitLookup ==
  /\ PipelineIdle
  /\ lensCache = EmptyMap
  /\ clock = 0
  /\ pending = <<>>
  /\ last = NoCall
  /\ owner = EmptyMap
  /\ uncalled = {}
  /\ world = LookupWorld
  /\ env \in {TripleC, TripleD}

NextLookup ==
  \/ GetLensByNameCall
  \/ GetLensNamesCall
  \/ ListRequest
  \/ NameRequest
  \/ DiscoverResolves
  \/ DiscoverRejects

SpecLookup == InitLookup /\ [][NextLookup]_vars


----------------------------------------------------------------------------
(* The profile as documented, stated apart from validateFHIRLens *)

\* a non-empty string
GoodString(x) == x.t = "string" /\ x.v # <<>>

\* an object, in the sense of typeof
IsObjectValue(x) == ~Falsy(x) /\ TypeOf(x) = "object"

\* content holds an item whose data is a non-empty string
ContentHasPayload(content) ==
  /\ content.t = "array"
  /\ \E i \in 1..Len(content.items) :
       /\ content.items[i].t = "object"
       /\ "data" \in DOMAIN content.items[i].f
       /\ GoodString(content.items[i].f["data"])

\* every item of a content array is an object, as the schema declares
ItemsAreObjects(content) ==
  content.t = "array"
  /\ \A i \in 1..Len(content.items) : content.items[i].t = "object"

\* a defect of the document other than its payload
NonPayloadDefect(doc) ==
  \/ ~IsObjectValue(doc)
  \/ Get(doc, "resourceType") # JStr(LibraryStr)
  \/ ~GoodString(Get(doc, "id"))
  \/ ~GoodString(Get(doc, "url"))
  \/ ~GoodString(Get(doc, "name"))
  \/ ~GoodString(Get(doc, "status"))

\* invalid only for missing payload
PayloadOnlyInvalid(doc) ==
  ~NonPayloadDefect(doc) /\ ~ContentHasPayload(Get(doc, "content"))

\* a valid lens document
ProfileValid(doc) ==
  /\ ~NonPayloadDefect(doc)
  /\ ItemsAreObjects(Get(doc, "content"))
  /\ ContentHasPayload(Get(doc, "content"))

MsgId ==
  <<"i", "d", " ", "i", "s", " ", "r", "e", "q", "u", "i", "r", "e", "d", 
    " ", "a", "n", "d", " ", "m", "u", "s", "t", " ", "b", "e", " ", "a", 
    " ", "s", "t", "r", "i", "n", "g">>

WordFunction ==
  <<"f", "u", "n", "c", "t", "i", "o", "n">>

WordEnhance ==
  <<"e", "n", "h", "a", "n", "c", "e">>

\* text holds "function", at least one blank, then "enhance"
DeclaresEnhance(text) ==
  \E i \in 0..Len(text), k \in 1..Len(text) :
    /\ i + Len(WordFunction) + k + Len(WordEnhance) <= Len(text)
    /\ \A j \in 1..Len(WordFunction) : text[i + j] = WordFunction[j]
    /\ \A j \in 1..k : text[i + Len(WordFunction) + j] \in {" ", "\n"}
    /\ \A j \in 1..Len(WordEnhance) :
         text[i + Len(WordFunction) + k + j] = WordEnhance[j]

----------------------------------------------------------------------------
(* Views of the tree and of the result *)

\* the paths of the files of one kind ("json" or "js") in the tree
FilesOfKind(kind) ==
  UNION {{Path(TRUE, Append(d, tree[d][i].name)) :
            i \in {j \in 1..Len(tree[d]) : tree[d][j].body.k = kind}} :
         d \in DOMAIN tree}

\* the scripts lying directly in a directory
ScriptsInDir(dir) == {s \in FilesOfKind("js") : Dirname(s) = dir}

\* the positions of the result that carry a path
LensesAt(p) == {i \in 1..Len(validLenses) : validLenses[i].path = p}

\* the decoded payload of the first content item of a lens
DecodedPayload(l) ==
  FromBase64(l.lens.f["content"].items[1].f["data"].v)

\* the lens has a string payload in its first content item
HasFirstPayload(l) ==
  /\ "content" \in DOMAIN l.lens.f
  /\ l.lens.f["content"].t = "array"
  /\ Len(l.lens.f["content"].items) > 0
  /\ l.lens.f["content"].items[1].t = "object"
  /\ "data" \in DOMAIN l.lens.f["content"].items[1].f
  /\ l.lens.f["content"].items[1].f["data"].t = "string"

Range(s) == {s[i] : i \in 1..Len(s)}

----------------------------------------------------------------------------
(* Claims *)

\* C1: every lens in the array discoverLenses builds carries, in its field
\* lens, a document on which validateFHIRLens returns isValid = true with no
\* errors, whether it was pushed directly or after enhancement.
C1_EveryLensValid ==
  \A i \in 1..Len(validLenses) :
    validateFHIRLens(validLenses[i].lens) = Returned(<<>>)

\* a finished run that pushed a lens directly and another after enhancement
C1_Witness ==
  /\ pc = "done"
  /\ \E i \in 1..Len(validLenses) : validLenses[i].enhanceSource = "none"
  /\ \E i \in 1..Len(validLenses) : validLenses[i].enhanceSource # "none"

\* C2: a document with a defect other than its payload (a missing or bad
\* resourceType, id, url, name or status) is never pushed onto the result and
\* never enters the enhancement branch.
C2_NonPropagation ==
  \A p \in FilesOfKind("json") :
    NonPayloadDefect(ParsedJson(p)) =>
      LensesAt(p) = {} /\ p \notin enhanceLog

\* C3: when discoverLenses has finished, a document invalid only for missing
\* payload whose directory holds one script declaring enhance has exactly
\* one lens, whose payload decodes to the script's text, with enhanceSource
\* exact-match when the script has the document's base name and fallback
\* otherwise.
C3_EnhancementRoundTrip ==
  pc = "done" =>
    \A p \in FilesOfKind("json") :
      \A s \in ScriptsInDir(Dirname(p)) :
        ( /\ PayloadOnlyInvalid(ParsedJson(p))
          /\ ScriptsInDir(Dirname(p)) = {s}
          /\ DeclaresEnhance(ScriptText(s)) )
        => /\ Cardinality(LensesAt(p)) = 1
           /\ \A i \in LensesAt(p) :
                /\ HasFirstPayload(validLenses[i])
                /\ DecodedPayload(validLenses[i]) = ScriptText(s)
                /\ validLenses[i].enhanceSource =
                     IF s.segs[Len(s.segs)].base = p.segs[Len(p.segs)].base
                     THEN "exact-match" ELSE "fallback"

\* C4: when discoverLenses has finished, a document invalid only for missing
\* payload whose directory holds no script has a lens whose payload decodes
\* to the default enhance stub, with enhanceSource default and no script
\* path.
C4_FallbackToDefault ==
  pc = "done" =>
    \A p \in FilesOfKind("json") :
      (PayloadOnlyInvalid(ParsedJson(p)) /\ ScriptsInDir(Dirname(p)) = {})
      => \E i \in LensesAt(p) :
           /\ HasFirstPayload(validLenses[i])
           /\ DecodedPayload(validLenses[i]) = defaultEnhance
           /\ validLenses[i].enhanceSource = "default"
           /\ validLenses[i].enhancedWithJs = NoPath

\* C5: validateFHIRLens called on an object whose id is not a non-empty
\* string returns isValid = false with the id message among its errors.
C5_MissingIdRejected ==
  (vpc = "returned" /\ IsObjectValue(vLens)
   /\ ~GoodString(Get(vLens, "id")))
  => ~vResult.isValid /\ MsgId \in Range(vResult.errors)

\* the message of a required string field
FieldMessage(field) ==
  CASE field = "url" -> MsgUrl
    [] field = "name" -> MsgName
    [] field = "status" -> MsgStatus

\* C6: validateFHIRLens called on an object whose url, name or status is not
\* a non-empty string returns isValid = false with that field's message
\* among its errors, whatever the other fields and the content are.
C6_NonShortCircuit ==
  (vpc # "call" /\ IsObjectValue(vLens)) =>
    \A field \in {"url", "name", "status"} :
      ~GoodString(Get(vLens, field)) =>
        /\ vpc = "returned"
        /\ ~vResult.isValid
        /\ FieldMessage(field) \in Range(vResult.errors)

\* C7: validateFHIRLens called on null, undefined or a value whose typeof is
\* not object returns isValid = false with the single error 'Lens must be a
\* JSON object'.
C7_NonObjectSingleError ==
  (vpc # "call" /\ ~IsObjectValue(vLens)) =>
    /\ vpc = "returned"
    /\ vResult = [threw |-> FALSE, isValid |-> FALSE,
                  errors |-> <<MsgNotObject>>]

\* a call on the string "no" has returned
C7_Witness ==
  vpc = "returned" /\ vLens = JStr(<<"n", "o">>)

\* C8: validateFHIRLens called on a document with resourceType Library,
\* non-empty string id, url, name and status and a content array holding an
\* item whose data is a non-empty string returns isValid = true with no
\* errors.
C8_ValidAccepted ==
  (vpc # "call" /\ ~NonPayloadDefect(vLens)
   /\ ContentHasPayload(Get(vLens, "content")))
  => vpc = "returned" /\ vResult = Returned(<<>>)

\* the place of a message in the field-check order resourceType, id, url,
\* name, status, content
Rank(msg) ==
  CASE msg = MsgResourceType -> 1
    [] msg = MsgId -> 2
    [] msg = MsgUrl -> 3
    [] msg = MsgName -> 4
    [] msg = MsgStatus -> 5
    [] msg = MsgContentArray -> 6
    [] msg = MsgContentData -> 6
    [] OTHER -> 0

\* C9: the errors validateFHIRLens returns for an object are field messages
\* in the order resourceType, id, url, name, status, content.
C9_ErrorOrder ==
  (vpc = "returned" /\ IsObjectValue(vLens)) =>
    /\ \A i \in 1..Len(vResult.errors) : Rank(vResult.errors[i]) > 0
    /\ \A i, j \in 1..Len(vResult.errors) :
         i < j => Rank(vResult.errors[i]) < Rank(vResult.errors[j])

\* a call on an object has returned all five messages the code can produce
C9_Witness ==
  /\ vpc = "returned"
  /\ IsObjectValue(vLens)
  /\ Len(vResult.errors) = 5

\* C10: when discoverLenses has finished, every valid document of the tree,
\* at whatever depth, has exactly one lens, no path has two, and a tree
\* whose documents are all valid yields as many lenses as it has documents.
C10_WalkComplete ==
  pc = "done" =>
    /\ \A p \in FilesOfKind("json") :
         ProfileValid(ParsedJson(p)) => Cardinality(LensesAt(p)) = 1
    /\ \A i, j \in 1..Len(validLenses) :
         validLenses[i].path = validLenses[j].path => i = j
    /\ (\A p \in FilesOfKind("json") : ProfileValid(ParsedJson(p)))
         => Len(validLenses) = Cardinality(FilesOfKind("json"))

\* a finished run over a tree of valid documents only, two or more of them,
\* one of them two directories below the root
C10_Witness ==
  /\ pc = "done"
  /\ Cardinality(FilesOfKind("json")) >= 2
  /\ \A p \in FilesOfKind("json") : ProfileValid(ParsedJson(p))
  /\ \E p \in FilesOfKind("json") : Len(p.segs) >= 4
  /\ Len(validLenses) = Cardinality(FilesOfKind("json"))

\* C11: when a directory is unlistable (the root included, which covers a
\* root that does not exist), in either walk, discoverLenses never enters
\* its per-file loop and never returns: it rejects, and nothing has been
\* collected when it does, whatever documents the first walk had found.
C11_DirectoryFailureFatal ==
  /\ unlistable # {} => pc \in {"start", "scan", "rejected"}
  /\ pc = "rejected" => unlistable # {} /\ validLenses = <<>>

\* the script walk failed on a subdirectory after the document walk had
\* found a valid document
C11_Witness ==
  /\ pc = "rejected"
  /\ unlistable # {} /\ <<RootName>> \notin unlistable
  /\ \E i \in 1..Len(lensFiles) :
       /\ Parses(lensFiles[i])
       /\ ProfileValid(ParsedJson(lensFiles[i]))

----------------------------------------------------------------------------
(* discoverLenses on a tree from which one document file is removed *)

\* the tree t without the file at filePath
RemoveFile(t, filePath) ==
  [d \in DOMAIN t |->
     IF d = Dirname(filePath).segs
     THEN SelectSeq(t[d],
                    LAMBDA e : e.name # filePath.segs[Len(filePath.segs)])
     ELSE t[d]]

RECURSIVE traverseJsonOn(_, _, _)
\* findJsonFiles' traverse on the tree t
traverseJsonOn(t, currentDir, i) ==
  LET files == t[currentDir.segs] IN
  IF i > Len(files) THEN <<>>
  ELSE LET file == files[i].name
           filePath == Join(currentDir, file)
       IN (IF files[i].body.k = "dir" THEN traverseJsonOn(t, filePath, 1)
           ELSE IF extname(file) = ".json" THEN <<filePath>>
           ELSE <<>>)
          \o traverseJsonOn(t, currentDir, i + 1)

RECURSIVE traverseEnhanceOn(_, _, _)
\* findEnhanceFiles' traverse on the tree t
traverseEnhanceOn(t, currentDir, i) ==
  LET files == t[currentDir.segs] IN
  IF i > Len(files) THEN <<>>
  ELSE LET file == files[i].name
           filePath == Join(currentDir, file)
       IN (IF files[i].body.k = "dir" THEN traverseEnhanceOn(t, filePath, 1)
           ELSE IF extname(file) = ".js" /\ files[i].body.k = "js"
                   /\ HasEnhanceNeedle(files[i].body.text)
                THEN <<[js |-> filePath,
                        jsonFilePath |-> Join(currentDir, JsonSibling(file)),
                        dirKey |-> currentDir]>>
                ELSE <<>>)
          \o traverseEnhanceOn(t, currentDir, i + 1)

\* what one iteration of the loop contributes for filePath: a sequence of
\* no or one lens entry
ProcessFile(ef, filePath) ==
  IF ~Parses(filePath) THEN <<>>
  ELSE
    LET jsonData == ParsedJson(filePath)
        validation == validateFHIRLens(jsonData)
    IN IF validation.threw THEN <<>>
       ELSE IF validation.isValid
       THEN <<LensEntry(jsonData, filePath, NoPath, "none")>>
       ELSE IF PayloadOnlyGate(validation, jsonData)
       THEN LET s == Synthesize(ef, filePath)
                spliced == Splice(jsonData, s.base64Content)
                revalidation == validateFHIRLens(spliced.doc)
            IN IF ~spliced.threw /\ ~revalidation.threw
                  /\ revalidation.isValid
               THEN <<LensEntry(spliced.doc, filePath, s.enhanceFile,
                                s.enhanceSource)>>
               ELSE <<>>
       ELSE <<>>

RECURSIVE ProcessFiles(_, _)
\* the loop over a list of document paths
ProcessFiles(ef, files) ==
  IF files = <<>> THEN <<>>
  ELSE ProcessFile(ef, files[1]) \o ProcessFiles(ef, Tail(files))

\* what discoverLenses returns for the tree without filePath; the files
\* that remain are read as they stand in the tree
OutputWithout(filePath) ==
  LET t == RemoveFile(tree, filePath)
  IN ProcessFiles(EnhanceFilesOf(traverseEnhanceOn(t, root, 1)),
                  traverseJsonOn(t, root, 1))

\* processing filePath throws: the read, the parse, the validation or the
\* splice of the enhancement
Failing(filePath) ==
  \/ ~Parses(filePath)
  \/ /\ Parses(filePath)
     /\ LET jsonData == ParsedJson(filePath)
            validation == validateFHIRLens(jsonData)
        IN \/ validation.threw
           \/ /\ ~validation.isValid
              /\ PayloadOnlyGate(validation, jsonData)
              /\ \/ Splice(jsonData, getDefaultEnhanceBase64).threw
                 \/ validateFHIRLens(
                      Splice(jsonData, getDefaultEnhanceBase64).doc).threw

\* C12: a document file whose processing throws never makes discoverLenses
\* reject (it rejects only when a directory is unlistable), and when
\* discoverLenses has finished its result is the result for the same tree
\* without that file.
C12_PerFileIsolation ==
  /\ pc = "rejected" => unlistable # {}
  /\ pc = "done" =>
       \A i \in 1..Len(lensFiles) :
         Failing(lensFiles[i]) => validLenses = OutputWithout(lensFiles[i])

\* a finished run in which a failing file came before a file that was
\* emitted
C12_Witness ==
  /\ pc = "done"
  /\ \E i, j \in 1..Len(lensFiles) :
       /\ i < j
       /\ Failing(lensFiles[i])
       /\ LensesAt(lensFiles[j]) # {}

\* C13: at every moment the paths of the lenses collected so far, direct
\* and enhanced alike, are paths of the list findJsonFiles produced, and
\* two lenses stand in the order in which their paths stand in that list.
C13_ResultOrdering ==
  /\ \A i \in 1..Len(validLenses) :
       \E a \in 1..Len(lensFiles) : lensFiles[a] = validLenses[i].path
  /\ \A i, j \in 1..Len(validLenses) :
       i < j =>
         \E a, b \in 1..Len(lensFiles) :
           /\ a < b
           /\ lensFiles[a] = validLenses[i].path
           /\ lensFiles[b] = validLenses[j].path

\* a finished run that returned an enhanced lens followed by a directly
\* valid one
C13_Witness ==
  /\ pc = "done"
  /\ Len(validLenses) = 2
  /\ validLenses[1].enhanceSource # "none"
  /\ validLenses[2].enhanceSource = "none"

----------------------------------------------------------------------------
(* Views of the service *)

\* the latest step began a getLenses call with a repository
BeganGetLenses(c) ==
  c.began /\ c.kind = "getLenses" /\ ~Falsy(c.triple.repoUrl)

\* the latest step settled a call whose discoverLenses promise had been
\* awaited
SettledDiscovery(c) == ~c.began /\ c.st \in {"resolved", "rejected"}

\* C14: a getLenses call that resolved after a discovery leaves an entry
\* for its key stamped with the time of the resolution; an entry leaves the
\* cache only by clearCache or when a call finds it as old as the TTL; and a
\* getLenses call that begins while the entry of its key is younger than
\* the TTL returns the cached lenses at once and starts no discovery.
C14_CacheHit ==
  [][ /\ (SettledDiscovery(last') /\ last'.kind = "getLenses"
            /\ last'.st = "resolved") =>
           /\ KeyOf(last'.triple) \in DOMAIN lensCache'
           /\ lensCache'[KeyOf(last'.triple)] =
                [lenses |-> last'.result.value, timestamp |-> clock']
      /\ \A k \in DOMAIN lensCache :
           k \notin DOMAIN lensCache' =>
             \/ ClearCache
             \/ clock - lensCache[k].timestamp >= CACHE_TTL
      /\ (/\ BeganGetLenses(last')
          /\ KeyOf(last'.triple) \in DOMAIN lensCache
          /\ clock - lensCache[KeyOf(last'.triple)].timestamp < CACHE_TTL) =>
           /\ last'.st = "resolved"
           /\ last'.result = Resolved(lensCache[KeyOf(last'.triple)].lenses)
           /\ pending' = pending
           /\ lensCache' = lensCache
    ]_vars

\* a getLenses call was served the cached lens without a discovery
C14_Witness ==
  /\ BeganGetLenses(last)
  /\ last.hit
  /\ last.st = "resolved"
  /\ last.result.value = <<LensP>>
  /\ pending = <<>>

\* the triples whose calls wrote an entry that is in the cache
Owners == {owner[k] : k \in DOMAIN owner}

\* C15: a call that is served from the cache is served the entry a call
\* for its own triple stored; an entry is overwritten or removed, other
\* than by clearCache, only in a call for the triple that stored it; and a
\* call for a triple that has no entry of its own starts a discovery,
\* whatever other triples are cached.
C15_KeySeparation ==
  [][ /\ (last'.began /\ last'.hit) =>
           owner[KeyOf(last'.triple)] = last'.triple
      /\ \A k \in DOMAIN lensCache :
           (k \notin DOMAIN lensCache' \/ lensCache'[k] # lensCache[k]) =>
             ClearCache \/ owner[k] = last'.triple
      /\ (/\ last'.began
          /\ ~Falsy(last'.triple.repoUrl)
          /\ last'.triple \notin Owners) =>
           last'.st = "awaiting"
    ]_vars

\* C16 as stated: the first getLenses call for a triple after clearCache
\* starts a discovery, and the call that awaited a discovery returns what
\* that discovery resolved with.
C16_ClearForcesDiscovery ==
  [][ /\ (BeganGetLenses(last') /\ last'.triple \in uncalled) =>
           last'.st = "awaiting"
      /\ (SettledDiscovery(last') /\ last'.kind = "getLenses") =>
           last'.result = last'.got
    ]_vars

\* C16, amended: clearCache leaves the cache empty, so every entry in the
\* cache was stored after the latest clearCache; the first getLenses call
\* for a triple after clearCache starts a discovery unless an entry for
\* its key has been stored since the clear and is younger than the TTL, in
\* which case it returns that entry; a call that awaited a discovery
\* returns what its discovery resolved with.
C16_ClearEmptiesCache ==
  [][ /\ ClearCache => lensCache' = EmptyMap
      /\ DOMAIN lensCache' = DOMAIN owner'
      /\ (BeganGetLenses(last') /\ last'.triple \in uncalled) =>
           \/ last'.st = "awaiting" /\ Len(pending') = Len(pending) + 1
           \/ /\ KeyOf(last'.triple) \in DOMAIN owner
              /\ clock - lensCache[KeyOf(last'.triple)].timestamp < CACHE_TTL
              /\ last'.result =
                   Resolved(lensCache[KeyOf(last'.triple)].lenses)
      /\ (SettledDiscovery(last') /\ last'.kind = "getLenses") =>
           last'.result = last'.got
    ]_vars

\* after a clearCache, a call for a triple has discovered a lens and
\* returned it
C16_Witness ==
  /\ uncalled # {}
  /\ last.kind = "getLenses"
  /\ last.triple \notin uncalled
  /\ SettledDiscovery(last)
  /\ last.st = "resolved"
  /\ last.result.value = <<LensP>>

\* C17 as stated: when the discovery of a getLenses call has rejected, the
\* call has rejected with the same error and the cache holds no entry for
\* its key.
C17_FailureLeavesNoEntry ==
  (SettledDiscovery(last) /\ last.kind = "getLenses" /\ last.st = "rejected")
    => /\ last.result = last.got
       /\ KeyOf(last.triple) \notin DOMAIN lensCache

\* C17, amended: when the discovery of a getLenses call rejects, the call
\* rejects with the same error and the cache is left exactly as it was (an
\* entry an overlapping call stored for the key stays); no cache entry
\* ever holds anything but discovered lenses; and a call that finds no
\* entry for its key starts a discovery.
C17_FailureNotCached ==
  [][ /\ (SettledDiscovery(last') /\ last'.kind = "getLenses"
            /\ last'.st = "rejected") =>
           /\ last'.result = last'.got
           /\ ~last'.result.ok
           /\ last'.result.error \in Discoveries(world).errors
           /\ lensCache' = lensCache
      /\ \A k \in DOMAIN lensCache' :
           lensCache'[k].lenses \in Discoveries(world).lists
      /\ (BeganGetLenses(last') /\ KeyOf(last'.triple) \notin DOMAIN lensCache)
           => last'.st = "awaiting" /\ Len(pending') = Len(pending) + 1
    ]_vars

\* a getLenses call has rejected with the error of its discovery and the
\* cache holds nothing for its key
C17_Witness ==
  /\ SettledDiscovery(last)
  /\ last.kind = "getLenses"
  /\ last.st = "rejected"
  /\ last.result = Rejected(DiscoverFailed)
  /\ KeyOf(last.triple) \notin DOMAIN lensCache

\* a call that has come to its end, by a cache hit, a throw or a settled
\* discovery
Settled(c) == c.kind # "none" /\ c.st \in {"resolved", "rejected"}

\* C18: when its getLenses call has resolved, getLensByName returns the
\* `lens` field of the first discovered lens, in discovery order, whose
\* name or id equals the requested string; when no lens matches, it throws
\* an error with statusCode 404 whose message contains the requested name.
C18_FirstMatchOr404 ==
  (last.kind \in {"getLensByName", "GET /:name"} /\ Settled(last)
     /\ last.got.ok) =>
    LET lenses == last.got.value
        matches == {i \in 1..Len(lenses) :
                      \/ lenses[i].name = JStr(last.lensName)
                      \/ lenses[i].id = JStr(last.lensName)}
    IN IF matches = {}
       THEN /\ last.st = "rejected"
            /\ ~last.result.ok
            /\ last.result.error.statusCode = 404
            /\ Includes(last.result.error.message, last.lensName)
       ELSE /\ last.st = "resolved"
            /\ last.result.ok
            /\ \E i \in matches :
                 /\ \A j \in matches : i <= j
                 /\ last.result.value = lenses[i].lens
                 /\ last.result.value # lenses[i]

\* two lenses match the requested name and the document of the first one,
\* which has no id, was returned
C18_Witness ==
  /\ last.kind = "getLensByName"
  /\ Settled(last)
  /\ last.got = Resolved(<<LensNoId, LensP>>)
  /\ last.lensName = <<"q">>
  /\ last.result = Resolved(LensNoId.lens)

C20_StatusMapping ==
  (last.kind \in {"GET /", "GET /:name"}) =>
    /\ last.st = "awaiting" => last.responses = <<>>
    /\ Settled(last) =>
         /\ Len(last.responses) = 1
         /\ LET res == last.responses[1]
                notFound == /\ last.kind = "GET /:name"
                            /\ ~last.result.ok
                            /\ last.result.error.statusCode = 404
            IN /\ res.status \in {200, 404, 500}
               /\ res.status = 200 <=> last.result.ok
               /\ res.status = 404 <=> notFound
               /\ res.status = 200 =>
                    IF last.kind = "GET /"
                    THEN res.body = [kind |-> "lenses",
                                     lenses |-> last.result.value]
                    ELSE res.body = [kind |-> "lens",
                                     lens |-> last.result.value]
               /\ res.status = 404 =>
                    /\ res.body.kind = "error"
                    /\ res.body.error = ErrLensNotFound
                    /\ res.body.message = last.result.error.message
               /\ res.status = 500 =>
                    /\ res.body.kind = "error"
                    /\ res.body.error = IF last.kind = "GET /"
                                        THEN ErrFetchLenses ELSE ErrFetchLens
                    /\ res.body.message = last.result.error.message

\* GET /lenses/:name was answered 404 with the message of getLensByName
\* because no discovered lens has the requested name or id
C20_Witness ==
  /\ last.kind = "GET /:name"
  /\ Settled(last)
  /\ last.got = Resolved(<<LensNoId>>)
  /\ last.lensName = <<"p">>
  /\ last.responses =
       <<Response(404, ErrorBody(ErrLensNotFound,
                                 MsgNotFoundHead \o <<"p">> \o MsgNotFoundTail))>>

----------------------------------------------------------------------------
(* discoverLenses: the enhancement branch, with the root spelled either way
   and a script that disappears before it is encoded *)

\* documents that pass the payload-only gate: content absent, content [],
\* content {} (not an array) and content [{}, {data: ''}]
EnhanceDocs ==
  { DocWith(JUndefined),
    DocWith(JArr(<<>>)),
    DocWith(EmptyObj),
    DocWith(JArr(<<EmptyObj, JObj([k \in {"data"} |-> JStr(<<>>)])>>)) }

\* the document, at the root or one directory below it
DocSlots ==
  {[dir |-> d, name |-> n, body |-> [k |-> "json", doc |-> x]] :
     d \in {<<RootName>>, <<RootName, SubA>>}, n \in JsonNames,
     x \in EnhanceDocs}

\* scripts, qualifying or not, in any directory
ScriptSlots ==
  {[dir |-> d, name |-> n, body |-> [k |-> "js", text |-> x]] :
     d \in Dirs, n \in JsNames, x \in TreeTexts}

\* one document and at most MaxFiles scripts, no name twice in a directory
EnhancePlacements ==
  {<<d>> \o s :
     d \in DocSlots,
     s \in {p \in UNION {[1..n -> ScriptSlots] : n \in 0..MaxFiles} :
              \A i, j \in 1..Len(p) :
                i # j => ~(p[i].dir = p[j].dir /\ p[i].name = p[j].name)}}

\* every script of the tree can be read
ScriptsReadable ==
  \A d \in DOMAIN tree : \A i \in 1..Len(tree[d]) :
    tree[d][i].body.k # "unreadable"

\* the file system changes between the script walk and the encoding: a
\* script findEnhanceFiles registered can no longer be read
ScriptLost ==
  /\ InLoop
  /\ ScriptsReadable
  /\ \E d \in DOMAIN tree : \E i \in 1..Len(tree[d]) :
       /\ Path(TRUE, Append(d, tree[d][i].name)) \in
            {enhanceFiles.exact[k] : k \in DOMAIN enhanceFiles.exact}
       /\ tree' = [tree EXCEPT ![d][i].body =
                     [k |-> "unreadable", text |-> tree[d][i].body.text]]
  /\ UNCHANGED <<root, unlistable, pc, lensFiles, enhanceFiles, idx,
                 validLenses, enhanceLog>>
  /\ UNCHANGED validatorVars
  /\ UNCHANGED serviceVars

\* discoverLenses(root) is about to run on a tree with one payload-only
\* document; root is the directory's normalised name ("r") or another
\* spelling of it ("./r", "r/")
InitEnhance ==
  /\ root \in {Path(TRUE, <<RootName>>), Path(FALSE, <<RootName>>)}
  /\ tree \in {TreeOf(p) : p \in EnhancePlacements}
  /\ unlistable = {}
  /\ pc = "start"
  /\ lensFiles = <<>>
  /\ enhanceFiles = NoEnhanceFiles
  /\ idx = 0
  /\ validLenses = <<>>
  /\ enhanceLog = {}
  /\ vLens = JUndefined
  /\ vResult = NoResult
  /\ vpc = "idle"
  /\ ServiceIdle

NextEnhance ==
  \/ FindJsonFiles
  \/ FindEnhanceFiles
  \/ ScriptLost
  \/ EnhanceLens
  \/ ReturnLenses

SpecEnhance == InitEnhance /\ [][NextEnhance]_vars

----------------------------------------------------------------------------
(* Claims on the enhancement branch *)

\* the qualifying scripts lying directly in a directory, in listing order
QualifyingScripts(dir) ==
  LET qualifies(e) == /\ e.name.ext = ".js"
                      /\ e.body.k \in {"js", "unreadable"}
                      /\ HasEnhanceNeedle(e.body.text)
      s == SelectSeq(tree[dir], qualifies)
  IN [i \in 1..Len(s) |-> Path(TRUE, Append(dir, s[i].name))]

\* the script with the base name of a document, in the document's directory
OwnScript(p) ==
  Path(TRUE, Append(Dirname(p).segs,
                    FileName(p.segs[Len(p.segs)].base, ".js")))

\* C21: when discoverLenses has finished and no script was lost, a lens
\* emitted by the enhancement branch was built with the qualifying script
\* of the document's own base name whenever the document's directory holds
\* one (provenance exact-match), whatever other qualifying scripts precede
\* it there; otherwise with the first qualifying script of the document's
\* own directory (provenance fallback); and when that directory holds no
\* qualifying script, with the default payload and no script, whatever
\* lies in parent, child or sibling directories.
C21_ScriptPriority ==
  (pc = "done" /\ ScriptsReadable) =>
    \A i \in 1..Len(validLenses) :
      LET l == validLenses[i]
          own == OwnScript(l.path)
          q == QualifyingScripts(Dirname(l.path).segs)
      IN l.enhanceSource # "none" =>
           IF own \in Range(q)
           THEN /\ l.enhanceSource = "exact-match"
                /\ l.enhancedWithJs = own
                /\ DecodedPayload(l) = ScriptText(own)
           ELSE IF q # <<>>
           THEN /\ l.enhanceSource = "fallback"
                /\ l.enhancedWithJs = q[1]
                /\ DecodedPayload(l) = ScriptText(q[1])
           ELSE /\ l.enhanceSource = "default"
                /\ l.enhancedWithJs = NoPath
                /\ DecodedPayload(l) = defaultEnhance

\* C22: when discoverLenses has finished, a document that entered the
\* enhancement branch and whose resolved script could not be read when it
\* was to be encoded has been emitted all the same, with the default stub
\* as payload, provenance default and no script path.
C22_EncodeFailureDefault ==
  pc = "done" =>
    \A p \in enhanceLog :
      LET r == ResolveEnhance(enhanceFiles, p) IN
      (r.enhanceFile # NoPath /\ ~Readable(r.enhanceFile)) =>
        /\ Cardinality(LensesAt(p)) = 1
        /\ \A i \in LensesAt(p) :
             /\ HasFirstPayload(validLenses[i])
             /\ DecodedPayload(validLenses[i]) = defaultEnhance
             /\ validLenses[i].enhanceSource = "default"
             /\ validLenses[i].enhancedWithJs = NoPath

\* C23: for every document that has entered the enhancement branch, the
\* splice of the synthesized payload into the document as parsed does not
\* fail and leaves content an array of at least one element whose first
\* element carries the payload as data, every further element being as it
\* was parsed and none added beyond the first; this for content absent,
\* empty, an array or not an array.
C23_SpliceShape ==
  \A p \in enhanceLog :
    LET parsed == ParsedJson(p)
        payload == Synthesize(enhanceFiles, p).base64Content
        spliced == Splice(parsed, payload)
        old == Get(parsed, "content")
        new == Get(spliced.doc, "content")
    IN /\ ~spliced.threw
       /\ new.t = "array"
       /\ Len(new.items) >= 1
       /\ Get(new.items[1], "data") = JStr(payload)
       /\ old.t = "array" =>
            /\ Len(new.items) = IF Len(old.items) = 0 THEN 1
                                 ELSE Len(old.items)
            /\ \A j \in 2..Len(old.items) : new.items[j] = old.items[j]
       /\ old.t # "array" => Len(new.items) = 1

\* C24: in the object findEnhanceFiles returned, every qualifying script
\* dir/name.js is the value of the exact key dir/name.json, whether or not
\* that document exists; the fallback map has a key for a directory
\* exactly when qualifying scripts lie directly in it, and the value is the
\* list of those scripts, all and only them, in traversal order.
C24_EnhanceFilesShape ==
  pc \in {"loop", "done"} =>
    /\ \A d \in DOMAIN tree :
         LET q == QualifyingScripts(d) IN
         /\ \A i \in 1..Len(q) :
              LET key == Path(TRUE, Append(d, JsonSibling(q[i].segs[Len(q[i].segs)])))
              IN /\ key \in DOMAIN enhanceFiles.exact
                 /\ enhanceFiles.exact[key] = q[i]
         /\ (q # <<>>) <=> (\E k \in DOMAIN enhanceFiles.fallback : k.segs = d)
    /\ \A k \in DOMAIN enhanceFiles.fallback :
         enhanceFiles.fallback[k] = QualifyingScripts(k.segs)

\* findEnhanceFiles has returned for a tree with a qualifying script in a
\* directory, another in its subdirectory, and neither script's document
C24_Witness ==
  /\ pc = "loop"
  /\ \E k, m \in DOMAIN enhanceFiles.fallback :
       /\ Len(m.segs) = Len(k.segs) + 1
       /\ SubSeq(m.segs, 1, Len(k.segs)) = k.segs
       /\ Len(enhanceFiles.fallback[k]) = 1
       /\ \A key \in DOMAIN enhanceFiles.exact :
            key \notin FilesOfKind("json")

\* the payload of a lens: the data of its first content item
PayloadOf(l) == l.lens.f["content"].items[1].f["data"].v

\* C27: in the array discoverLenses builds, a lens of a document that is
\* valid as parsed has no enhanceSource and no enhancedWithJs; every other
\* lens has enhanceSource exact-match, fallback or default, has
\* enhancedWithJs exactly when enhanceSource is exact-match or fallback,
\* and then carries the base64 encoding of that script as the data of its
\* first content item; with enhanceSource default it carries the encoding
\* of the default stub.
C27_EnhancementRecord ==
  \A i \in 1..Len(validLenses) :
    LET l == validLenses[i]
        validation == validateFHIRLens(ParsedJson(l.path))
    IN IF ~validation.threw /\ validation.isValid
       THEN l.enhanceSource = "none" /\ l.enhancedWithJs = NoPath
       ELSE /\ l.enhanceSource \in {"exact-match", "fallback", "default"}
            /\ l.enhancedWithJs # NoPath <=>
                 l.enhanceSource \in {"exact-match", "fallback"}
            /\ HasFirstPayload(l)
            /\ l.enhancedWithJs # NoPath =>
                 PayloadOf(l) = ToBase64(ScriptText(l.enhancedWithJs))
            /\ l.enhanceSource = "default" =>
                 PayloadOf(l) = ToBase64(defaultEnhance)

\* a finished run that emitted one lens directly and one with the default
\* stub
C27_Witness ==
  /\ pc = "done"
  /\ Len(validLenses) = 2
  /\ \E i, j \in 1..2 :
       /\ validLenses[i].enhanceSource = "none"
       /\ validLenses[j].enhanceSource = "default"
       /\ validLenses[j].enhancedWithJs = NoPath

----------------------------------------------------------------------------
(* Claims on validateFHIRLens and the payload-only gate *)

\* C25: a call of validateFHIRLens on any decoded JSON value returns a
\* record {isValid, errors}, isValid being true exactly when errors is
\* empty, and never throws; a second call on the same value yields the
\* same record.
C25_NeverThrows ==
  vpc # "call" =>
    /\ vpc = "returned"
    /\ ~vResult.threw
    /\ vResult.isValid <=> vResult.errors = <<>>
    /\ validateFHIRLens(vLens) = vResult

----------------------------------------------------------------------------
(* Claims on the cache: expiry and overlapping calls *)

\* C26: a getLenses call that finds, for its key, an entry whose age is
\* the TTL or more removes the entry and starts a discovery; a discovery
\* that resolves is stored with the time of its resolution; and a call is
\* served from the cache only when the entry it returns is younger than
\* the TTL.
C26_TTLExpiry ==
  [][ /\ (/\ BeganGetLenses(last')
          /\ KeyOf(last'.triple) \in DOMAIN lensCache
          /\ clock - lensCache[KeyOf(last'.triple)].timestamp >= CACHE_TTL) =>
           /\ KeyOf(last'.triple) \notin DOMAIN lensCache'
           /\ last'.st = "awaiting"
           /\ ~last'.hit
           /\ Len(pending') = Len(pending) + 1
           /\ pending'[Len(pending')].triple = last'.triple
      /\ (SettledDiscovery(last') /\ last'.kind = "getLenses"
            /\ last'.st = "resolved") =>
           lensCache'[KeyOf(last'.triple)] =
             [lenses |-> last'.result.value, timestamp |-> clock]
      /\ (last'.began /\ last'.hit) =>
           /\ KeyOf(last'.triple) \in DOMAIN lensCache
           /\ clock - lensCache[KeyOf(last'.triple)].timestamp < CACHE_TTL
           /\ last'.result = Resolved(lensCache[KeyOf(last'.triple)].lenses)
    ]_vars

\* a call found the entry of its key as old as the TTL, removed it and
\* awaits a new discovery
C26_Witness ==
  /\ last.kind = "getLenses"
  /\ last.began
  /\ last.expired
  /\ last.st = "awaiting"
  /\ clock >= CACHE_TTL
  /\ KeyOf(last.triple) \notin DOMAIN lensCache

\* C28: whenever validateFHIRLens has returned exactly one error and that
\* error contains 'content', isLensMissingBase64Content is true of the
\* document, so the gate is decided by its first two conditions; and of
\* the errors validateFHIRLens returns only the two content messages
\* contain 'content'.
C28_PredicateNeverFilters ==
  vpc = "returned" =>
    /\ (Len(vResult.errors) = 1 /\ Includes(vResult.errors[1], WordContent))
         => /\ isLensMissingBase64Content(vLens)
            /\ PayloadOnlyGate(vResult, vLens)
    /\ \A i \in 1..Len(vResult.errors) :
         Includes(vResult.errors[i], WordContent) <=>
           vResult.errors[i] \in {MsgContentArray, MsgContentData}
    /\ \A m \in {MsgNotObject, MsgResourceType, MsgUrl, MsgName, MsgStatus} :
         ~Includes(m, WordContent)

\* a call on a document whose only defect is a content that is a string
\* has returned the single error 'content must be an array'
C28_Witness ==
  /\ vpc = "returned"
  /\ vResult.errors = <<MsgContentArray>>
  /\ Get(vLens, "content").t = "string"
  /\ isLensMissingBase64Content(vLens)

\* C29: a getLenses call that begins while another call for the same key
\* still awaits its discovery, and no fresh entry exists, starts a
\* discovery of its own; the settling of a discovery settles that one call
\* only, with the outcome of that discovery, and leaves the other calls
\* pending; and each resolution overwrites the entry of the key with its
\* own lenses and the time of its own resolution, so the entry is that of
\* the discovery that resolved last.
C29_NoDeduplication ==
  [][ /\ (/\ BeganGetLenses(last')
          /\ \E i \in 1..Len(pending) :
               KeyOf(pending[i].triple) = KeyOf(last'.triple)
          /\ ~(/\ KeyOf(last'.triple) \in DOMAIN lensCache
               /\ clock - lensCache[KeyOf(last'.triple)].timestamp
                    < CACHE_TTL)) =>
           /\ last'.st = "awaiting"
           /\ pending' = Append(pending, [kind |-> "getLenses",
                                          triple |-> last'.triple,
                                          lensName |-> <<>>])
      /\ (SettledDiscovery(last') /\ last'.kind = "getLenses") =>
           /\ last'.result = last'.got
           /\ \E i \in 1..Len(pending) :
                /\ pending[i].triple = last'.triple
                /\ pending' = Without(pending, i)
           /\ last'.st = "resolved" =>
                lensCache' =
                  [k \in DOMAIN lensCache \cup {KeyOf(last'.triple)} |->
                     IF k = KeyOf(last'.triple)
                     THEN [lenses |-> last'.result.value, timestamp |-> clock]
                     ELSE lensCache[k]]
    ]_vars

\* two calls for one triple overlapped: the discovery of one has just
\* resolved with a lens, which is now the entry of the key, while the
\* other call still awaits a discovery of its own
C29_Witness ==
  /\ SettledDiscovery(last)
  /\ last.kind = "getLenses"
  /\ last.st = "resolved"
  /\ last.result = Resolved(<<LensP>>)
  /\ Len(pending) = 1
  /\ pending[1].triple = last.triple
  /\ lensCache[KeyOf(last.triple)] = [lenses |-> <<LensP>>, timestamp |-> clock]

\* C30: clearCache leaves the discoveries in flight as they are; when the
\* discovery of a call that began before the latest clearCache resolves,
\* its lenses are stored under the call's key with the time of the
\* resolution; and the first getLenses call for a triple after the
\* clearCache that finds such an entry younger than the TTL returns it and
\* starts no discovery.
C30_ClearKeepsInFlight ==
  [][ /\ ClearCache => pending' = pending
      /\ (/\ SettledDiscovery(last')
          /\ last'.kind = "getLenses"
          /\ last'.st = "resolved"
          /\ last'.triple \in uncalled) =>
           /\ KeyOf(last'.triple) \in DOMAIN lensCache'
           /\ lensCache'[KeyOf(last'.triple)] =
                [lenses |-> last'.got.value, timestamp |-> clock]
           /\ last'.triple \in uncalled'
      /\ (/\ BeganGetLenses(last')
          /\ last'.triple \in uncalled
          /\ KeyOf(last'.triple) \in DOMAIN lensCache
          /\ clock - lensCache[KeyOf(last'.triple)].timestamp < CACHE_TTL) =>
           /\ last'.hit
           /\ last'.result = Resolved(lensCache[KeyOf(last'.triple)].lenses)
           /\ pending' = pending
    ]_vars

\* the cache was cleared while a call awaited its discovery; no call for
\* the triple has begun since, the discovery has now resolved with a lens
\* and the lens is in the cache
C30_Witness ==
  /\ SettledDiscovery(last)
  /\ last.kind = "getLenses"
  /\ last.st = "resolved"
  /\ last.triple \in uncalled
  /\ last.result = Resolved(<<LensP>>)
  /\ KeyOf(last.triple) \in DOMAIN lensCache
  /\ lensCache[KeyOf(last.triple)].lenses = <<LensP>>
  /\ owner[KeyOf(last.triple)] = last.triple

====
